---- MODULE Spec2Model ----
(***************************************************************************)
(* ioeye: the storage analyzer (pkg/analyzer), the storage monitor        *)
(* (pkg/monitor) and the analysis loop of cmd/main, as a state machine.    *)
(*                                                                         *)
(* Latencies are uint64 nanoseconds in the source.  The model keeps them   *)
(* as naturals.  The float64 arithmetic of detectAnomaly and               *)
(* GetLatencyTrend is modelled in exact rational arithmetic, every         *)
(* quotient cross-multiplied to an integer comparison; a division by a     *)
(* zero float keeps its IEEE outcome (NaN compares false, +Inf compares    *)
(* greater than every threshold).                                          *)
(***************************************************************************)
EXTENDS Integers, Sequences, FiniteSets, TLC

VARIABLES
    \* StorageAnalyzer (storage_analyzer.go:31-38)
    metricsHistory,     \* map podName -> sequence of snapshots, oldest first
    maxHistoryPerPod,
    podBottlenecks,     \* map podName -> BottleneckType
    anomalyDetected,    \* map podName -> BOOLEAN
    anomalyThreshold,
    mu,                 \* sa.mu: "free" or "write" (AddMetrics holds the lock)
    addInput,           \* the entries of AddMetrics' argument not yet ranged over
    \* StorageMonitor (part_000:298-306) and the wall clock
    metrics,            \* map podName -> current snapshot
    clock,              \* time.Now()
    \* the analysis goroutine of main (main.go:113-139)
    loopPc,
    allMetrics,
    \* the caller's side of a query: the last value returned
    ret,
    \* the environment and the history variables of the verification
    workload,           \* which callers drive the run (fixed at Init)
    supplied,           \* per pod, every snapshot handed to AddMetrics so far
    nCalls,             \* AddMetrics calls started so far (bounds the runs)
    \* the BPF program (part_003): its maps
    requests,           \* key -> io_event_t of a pending start
    latency_by_pid,     \* pid -> latency_info_t
    events,             \* the io_event_t records sent to the perf buffer
    \* ebpf.Monitor (part_001:213-219)
    ioStatsCache,
    lastCollectTime,
    \* history variables of the BPF program: per key, the start signals seen
    \* and the completions that matched a pending start
    started,
    completed,
    lastStart,          \* per key, the latest start signal that no
                        \* completion has matched yet
    \* the goroutines of the running program
    collectorPc,        \* the collection goroutine (part_000:361-379)
    monitorCtx,         \* Start's monitorCtx (part_000:358)
    stopChan,           \* sm.stopChan
    ctx,                \* main's ctx (main.go:52)
    \* history variables of the cycles
    unfetched,          \* per pod, collections not yet read by GetAllMetrics
    fetched,            \* per pod, that count at the last GetAllMetrics
    collected,          \* the last collection cycle: its inputs and the
                        \* state it started from
    \* sharing between the monitor's objects and the analyzer's history
    allShared,          \* pods whose entry of allMetrics is the monitor's
                        \* own object
    aliased,            \* per pod, the history positions holding it
    \* concurrent callers: the arguments of the AddMetrics calls that have
    \* reached sa.mu.Lock() and have not returned; while mu is held the
    \* first one is the call that holds it
    addCalls

vars == <<metricsHistory, maxHistoryPerPod, podBottlenecks, anomalyDetected,
          anomalyThreshold, mu, addInput, metrics, clock, loopPc, allMetrics,
          ret, workload, supplied, nCalls, requests, latency_by_pid, events,
          ioStatsCache, lastCollectTime, started, completed, lastStart,
          collectorPc,
          monitorCtx, stopChan, ctx, unfetched, fetched, collected,
          allShared, aliased, addCalls>>

bpfVars == <<requests, latency_by_pid, events, started, completed,
             lastStart>>
ebpfMonitorVars == <<ioStatsCache, lastCollectTime>>
ebpfVars == <<bpfVars, ebpfMonitorVars>>

lifeVars == <<collectorPc, monitorCtx, stopChan, ctx>>
cycleVars == <<unfetched, fetched, collected>>
aliasVars == <<allShared, aliased>>
runVars == <<lifeVars, cycleVars, aliasVars, addCalls>>

analyzerVars == <<metricsHistory, maxHistoryPerPod, podBottlenecks,
                  anomalyDetected, anomalyThreshold, mu, addInput>>
monitorVars == <<metrics>>
loopVars == <<loopPc, allMetrics>>

----------------------------------------------------------------------------
(* Program constants                                                       *)

ReadLatencyThreshold == 10 * 1000 * 1000
WriteLatencyThreshold == 20 * 1000 * 1000
QueueLatencyThreshold == 5 * 1000 * 1000

BottleneckTypeNone == "none"
BottleneckTypeQueue == "queue"
BottleneckTypeDisk == "disk"
BottleneckTypeNetwork == "network"
BottleneckTypeUnknown == "unknown"

DefaultMaxHistoryPerPod == 100
DefaultAnomalyThreshold == 2
MinAnomalyHistory == 10
MinTrendHistory == 2

----------------------------------------------------------------------------
(* Bounds of the model                                                     *)

MaxAdds == 3            \* AddMetrics calls of the "mixed" workload
MaxAnomalyAdds == 11    \* AddMetrics calls of the single-pod workloads
MaxClock == 2           \* the wall clock runs from 0 to MaxClock
MaxCycles == 3          \* analysis cycles of the running system
MaxTrendAdds == 3       \* AddMetrics calls of the "trend" workload
MaxTrendClock == 3      \* the wall clock of the "trend" workload
MaxRankAdds == 2        \* AddMetrics calls of the "rank" workload
MaxSignals == 4         \* signals the kernel raises
MaxBpfClock == 2        \* bpf_ktime_get_ns() runs from 0 to MaxBpfClock
MaxRatesCalls == 3      \* calls into ebpf.Monitor
MaxRatesClock == 4      \* seconds the clock of ebpf.Monitor's caller runs

Pods == {"p1", "p2"}

----------------------------------------------------------------------------
(* Go maps and slices                                                      *)

EmptyMap == [x \in {} |-> 0]

\* no query has returned to the caller
NoReturn == [op |-> "none"]

MapPut(m, k, v) == [x \in (DOMAIN m) \cup {k} |-> IF x = k THEN v ELSE m[x]]

MapDelete(m, k) == [x \in (DOMAIN m) \ {k} |-> m[x]]

\* m[k] of a map of slices: the nil slice when the key is absent
SliceAt(m, k) == IF k \in DOMAIN m THEN m[k] ELSE <<>>

RECURSIVE SumOver(_, _)
SumOver(s, f) == IF s = <<>> THEN 0 ELSE s[1][f] + SumOver(Tail(s), f)

Min(a, b) == IF a <= b THEN a ELSE b

\* the last k elements of s
LastK(s, k) == SubSeq(s, Len(s) - k + 1, Len(s))

----------------------------------------------------------------------------
(* PodStorageMetrics (part_000:309-322)                                    *)

PodStorageMetrics(pod, rd, wr, qu, di, ne, ts) ==
    [PodName |-> pod, Namespace |-> "", ReadLatency |-> rd, WriteLatency |-> wr,
     ReadIOPS |-> 0, WriteIOPS |-> 0, ReadThroughput |-> 0,
     WriteThroughput |-> 0, QueueLatency |-> qu, DiskLatency |-> di,
     NetworkLatency |-> ne, Timestamp |-> ts]

----------------------------------------------------------------------------
(* StorageAnalyzer: construction                                           *)

WithMaxHistoryPerPod(max, cur) == IF max > 0 THEN max ELSE cur

WithAnomalyThreshold(threshold, cur) == IF threshold > 0 THEN threshold ELSE cur

NewStorageAnalyzer(max, threshold) ==
    /\ metricsHistory = EmptyMap
    /\ maxHistoryPerPod = WithMaxHistoryPerPod(max, DefaultMaxHistoryPerPod)
    /\ podBottlenecks = EmptyMap
    /\ anomalyDetected = EmptyMap
    /\ anomalyThreshold = WithAnomalyThreshold(threshold, DefaultAnomalyThreshold)
    /\ mu = "free"
    /\ addInput = EmptyMap

----------------------------------------------------------------------------
(* analyzeBottleneck (storage_analyzer.go:226-251)                         *)

\* a slip: the disk and network rules accept a tie for the maximum
analyzeBottleneckTies(m) ==
    IF /\ m.QueueLatency > QueueLatencyThreshold
       /\ m.QueueLatency > m.DiskLatency
       /\ m.QueueLatency > m.NetworkLatency
    THEN BottleneckTypeQueue
    ELSE IF /\ m.DiskLatency >= m.QueueLatency
            /\ m.DiskLatency >= m.NetworkLatency
    THEN BottleneckTypeDisk
    ELSE IF /\ m.NetworkLatency >= m.QueueLatency
            /\ m.NetworkLatency >= m.DiskLatency
    THEN BottleneckTypeNetwork
    ELSE IF \/ m.ReadLatency > ReadLatencyThreshold
            \/ m.WriteLatency > WriteLatencyThreshold
    THEN BottleneckTypeUnknown
    ELSE BottleneckTypeNone

\* a slip: the queue rule has no threshold
analyzeBottleneckNoQueueThreshold(m) ==
    IF /\ m.QueueLatency > m.DiskLatency
       /\ m.QueueLatency > m.NetworkLatency
    THEN BottleneckTypeQueue
    ELSE IF /\ m.DiskLatency > m.QueueLatency
            /\ m.DiskLatency > m.NetworkLatency
    THEN BottleneckTypeDisk
    ELSE IF /\ m.NetworkLatency > m.QueueLatency
            /\ m.NetworkLatency > m.DiskLatency
    THEN BottleneckTypeNetwork
    ELSE IF \/ m.ReadLatency > ReadLatencyThreshold
            \/ m.WriteLatency > WriteLatencyThreshold
    THEN BottleneckTypeUnknown
    ELSE BottleneckTypeNone

analyzeBottleneck(m) ==
    IF /\ m.QueueLatency > QueueLatencyThreshold
       /\ m.QueueLatency > m.DiskLatency
       /\ m.QueueLatency > m.NetworkLatency
    THEN BottleneckTypeQueue
    ELSE IF /\ m.DiskLatency > m.QueueLatency
            /\ m.DiskLatency > m.NetworkLatency
    THEN BottleneckTypeDisk
    ELSE IF /\ m.NetworkLatency > m.QueueLatency
            /\ m.NetworkLatency > m.DiskLatency
    THEN BottleneckTypeNetwork
    ELSE IF \/ m.ReadLatency > ReadLatencyThreshold
            \/ m.WriteLatency > WriteLatencyThreshold
    THEN BottleneckTypeUnknown
    ELSE BottleneckTypeNone

----------------------------------------------------------------------------
(* detectAnomaly (storage_analyzer.go:254-294)                             *)
(*                                                                         *)
(* With n = len(history) and sum the uint64 sum of a series:               *)
(*   avg       = sum / n                                                   *)
(*   diff_i    = x_i - avg            = ScaledDiff(x_i, sum, n) / n        *)
(*   sumSqDiff = SUM diff_i^2         = SumSqDiff(...) / n^2               *)
(*   stdDev    = sumSqDiff / n        = SumSqDiff(...) / n^3               *)
(*   zScore    = (latest - avg) / stdDev                                   *)
(*             = ScaledDiff(latest, sum, n) * n^2 / SumSqDiff(...)         *)

ScaledDiff(x, sum, n) == n * x - sum

RECURSIVE SumSqDiff(_, _, _, _)
SumSqDiff(s, f, sum, n) ==
    IF s = <<>> THEN 0
    ELSE ScaledDiff(s[1][f], sum, n) * ScaledDiff(s[1][f], sum, n)
         + SumSqDiff(Tail(s), f, sum, n)

\* a slip: the sample variance (divide by n - 1) in place of the population one
ZScoreExceedsSampleVariance(num, sq, n, threshold) ==
    IF sq = 0
    THEN num > 0
    ELSE num * n * (n - 1) > threshold * sq

\* zScore > threshold for zScore = (num / n) / (sq / n^3), as float64 decides it
ZScoreExceeds(num, sq, n, threshold) ==
    IF sq = 0
    THEN num > 0                \* x/0: +Inf when x > 0; NaN or -Inf compare false
    ELSE num * n * n > threshold * sq

SeriesZScoreExceeds(history, f, threshold) ==
    LET n == Len(history)
        sum == SumOver(history, f)
        latest == history[n]
    IN ZScoreExceeds(ScaledDiff(latest[f], sum, n),
                     SumSqDiff(history, f, sum, n), n, threshold)

\* a slip: the minimum history length is off by one
detectAnomalyOffByOne(hist, podName, threshold) ==
    IF podName \notin DOMAIN hist \/ Len(hist[podName]) < MinAnomalyHistory - 1
    THEN FALSE
    ELSE \/ SeriesZScoreExceeds(hist[podName], "ReadLatency", threshold)
         \/ SeriesZScoreExceeds(hist[podName], "WriteLatency", threshold)

detectAnomaly(hist, podName, threshold) ==
    IF podName \notin DOMAIN hist \/ Len(hist[podName]) < MinAnomalyHistory
    THEN FALSE
    ELSE \/ SeriesZScoreExceeds(hist[podName], "ReadLatency", threshold)
         \/ SeriesZScoreExceeds(hist[podName], "WriteLatency", threshold)

----------------------------------------------------------------------------
(* Object identity.  The monitor keeps one PodStorageMetrics object per    *)
(* pod and updates it in place; a pointer either is that object or is a    *)
(* copy of it that nothing else refers to.                                 *)

MonitorObject == "monitor"
CopiedObject == "copy"

\* a slip: the pointer is copied, not the struct
StructCopyShares(ref) == ref

\* metricsCopy := *podMetrics (storage_analyzer.go:84, part_000:411): a new
\* object with the fields of the one pointed at
StructCopy(ref) == CopiedObject

\* the object AddMetrics is handed for a pod: allShared names the entries of
\* the argument that are the monitor's own objects
ArgumentObject(podName) ==
    IF podName \in allShared THEN MonitorObject ELSE CopiedObject

\* the history positions of a pod that hold the monitor's object, after an
\* append of stored (a reference) that took the history from before to after
StoredPositions(old, before, after, stored) ==
    LET kept == IF Len(after) > Len(before) THEN old
                ELSE { i - 1 : i \in old \ {1} }
    IN IF stored = MonitorObject /\ Len(after) > 0
       THEN kept \cup {Len(after)} ELSE kept

\* an in-place update of the monitor's objects, seen through every pointer
\* to them: the history entries
HistoryThrough(history, new) ==
    [p \in DOMAIN history |->
       [i \in 1..Len(history[p]) |->
          IF i \in aliased[p] /\ p \in DOMAIN new THEN new[p]
          ELSE history[p][i]]]

\* ... and the argument of an AddMetrics call
ArgumentThrough(argument, new) ==
    [p \in DOMAIN argument |->
       IF p \in allShared /\ p \in DOMAIN new THEN new[p] ELSE argument[p]]

----------------------------------------------------------------------------
(* AddMetrics (storage_analyzer.go:77-100)                                 *)

\* a slip: the limit is never enforced
AppendHistoryNoEvict(history, m, max) == Append(history, m)

\* a slip: the newest entry is dropped instead of the oldest
AppendHistoryDropNewest(history, m, max) ==
    LET appended == Append(history, m)
    IN IF Len(appended) > max THEN SubSeq(appended, 1, max) ELSE appended

\* lines 87-92: append the copy, then drop the oldest when over the limit
AppendHistory(history, m, max) ==
    LET appended == Append(history, m)
    IN IF Len(appended) > max THEN Tail(appended) ELSE appended

\* a slip: the anomaly check runs on the history as it was before the append
AnomalyBeforeAppend(before, after, podName, threshold) ==
    detectAnomaly(before, podName, threshold)

\* line 98: detectAnomaly reads sa.metricsHistory after lines 87-92 changed it
AnomalyAfterAppend(before, after, podName, threshold) ==
    detectAnomaly(after, podName, threshold)

\* a slip: the slice is stored under every key of the map
StoreHistoryForAll(history, podName, slice) ==
    [p \in (DOMAIN history) \cup {podName} |-> slice]

\* lines 87 and 91: sa.metricsHistory[podName] = ...
StoreHistory(history, podName, slice) == MapPut(history, podName, slice)

\* line 78: sa.mu.Lock(); the argument is ranged over from here on
AddMetricsLock(input) ==
    /\ mu = "free"
    /\ mu' = "write"
    /\ addInput' = input
    /\ supplied' = [p \in DOMAIN supplied |->
                      IF p \in DOMAIN input
                      THEN Append(supplied[p], input[p]) ELSE supplied[p]]
    /\ UNCHANGED <<metricsHistory, maxHistoryPerPod, podBottlenecks,
                   anomalyDetected, anomalyThreshold>>

\* lines 82-99: one iteration of the range loop, for any entry not yet visited
AddMetricsPod(podName) ==
    /\ mu = "write"
    /\ podName \in DOMAIN addInput
    /\ LET podMetrics == addInput[podName]
           hist == StoreHistory(metricsHistory, podName,
                                AppendHistory(SliceAt(metricsHistory, podName),
                                              podMetrics, maxHistoryPerPod))
       IN /\ metricsHistory' = hist
          /\ aliased' =
                 [aliased EXCEPT ![podName] =
                    StoredPositions(@, SliceAt(metricsHistory, podName),
                                    hist[podName],
                                    StructCopy(ArgumentObject(podName)))]
          /\ podBottlenecks' =
                 MapPut(podBottlenecks, podName, analyzeBottleneck(podMetrics))
          /\ anomalyDetected' =
                 MapPut(anomalyDetected, podName,
                        AnomalyAfterAppend(metricsHistory, hist, podName,
                                           anomalyThreshold))
    /\ addInput' = MapDelete(addInput, podName)
    /\ UNCHANGED <<maxHistoryPerPod, anomalyThreshold, mu, supplied>>

\* line 79: the deferred sa.mu.Unlock(), once the range loop is over
AddMetricsUnlock ==
    /\ mu = "write"
    /\ DOMAIN addInput = {}
    /\ mu' = "free"
    /\ UNCHANGED <<metricsHistory, maxHistoryPerPod, podBottlenecks,
                   anomalyDetected, anomalyThreshold, addInput, supplied>>

----------------------------------------------------------------------------
(* GetTopNSlowPods (storage_analyzer.go:103-143)                           *)

\* a *monitor.PodStorageMetrics held by the history: the object stored at
\* index ptr[2] of pod ptr[1]
Deref(ptr) == metricsHistory[ptr[1]][ptr[2]]

\* lines 116-119: the pods the range does not skip
PodsWithHistory ==
    { p \in DOMAIN metricsHistory : Len(metricsHistory[p]) > 0 }

\* lines 116-129: one podLatency per pod with history, in the order the
\* range over the map visits them; metrics is the stored pointer itself
PodLatency(podName) ==
    LET history == metricsHistory[podName]
        latestMetrics == history[Len(history)]
    IN [podName |-> podName,
        latency |-> latestMetrics.ReadLatency + latestMetrics.WriteLatency,
        metrics |-> <<podName, Len(history)>>]

\* the orders in which a range over the map can visit the pods of S
RangeOrders(S) ==
    { order \in [1..Cardinality(S) -> S] :
        \A i, j \in 1..Cardinality(S) : i # j => order[i] # order[j] }

\* a slip: the comparison is turned around
LessAscending(a, b) == a.latency < b.latency

\* lines 132-134: the less function handed to sort.Slice
Less(a, b) == a.latency > b.latency

\* sort.Slice on a short slice is an insertion sort: x goes before the
\* first element it is less than, from the back
RECURSIVE InsertSorted(_, _)
InsertSorted(sorted, x) ==
    IF sorted = <<>> THEN <<x>>
    ELSE IF Less(x, sorted[Len(sorted)])
         THEN Append(InsertSorted(SubSeq(sorted, 1, Len(sorted) - 1), x),
                     sorted[Len(sorted)])
         ELSE Append(sorted, x)

RECURSIVE SortSlice(_)
SortSlice(s) ==
    IF s = <<>> THEN <<>>
    ELSE InsertSorted(SortSlice(SubSeq(s, 1, Len(s) - 1)), s[Len(s)])

\* the whole query for one visiting order, under RLock: the pointers of
\* the first n podLatency entries after the sort (for n >= 0)
GetTopNSlowPods(n, order) ==
    LET latencies == SortSlice([i \in DOMAIN order |-> PodLatency(order[i])])
    IN [i \in 1..Min(n, Len(latencies)) |-> latencies[i].metrics]

\* how a call ends: it returns a slice, or a run-time panic unwinds it
Returned(result) == [outcome |-> "return", result |-> result]
Panicked(message) == [outcome |-> "panic", result |-> <<>>,
                      message |-> message]

\* line 137: make([]*monitor.PodStorageMetrics, 0, n) panics for a negative
\* capacity; the call with its outcome, the result read through the pointers
GetTopNSlowPodsCall(n, order) ==
    IF n < 0 THEN Panicked("makeslice: cap out of range")
    ELSE LET result == GetTopNSlowPods(n, order)
         IN Returned([i \in DOMAIN result |-> Deref(result[i])])

----------------------------------------------------------------------------
(* GetLatencyTrend (storage_analyzer.go:172-221)                           *)

\* lines 188-193: from the newest entry backwards, the index of the first
\* entry whose Timestamp.Before(startTime); 0 when the loop finds none
RECURSIVE ScanBack(_, _, _)
ScanBack(history, i, startTime) ==
    IF i = 0 THEN 0
    ELSE IF history[i].Timestamp < startTime THEN i
    ELSE ScanBack(history, i - 1, startTime)

\* lines 182-197: the index of oldestInRange
BaselineIndex(history, now, duration) ==
    LET found == ScanBack(history, Len(history), now - duration)
    IN IF found = 0 THEN 1 ELSE found

\* a slip: a boundary change of exactly 10% counts as a change
TrendOfInclusive(oldTotalLatency, newTotalLatency) ==
    IF oldTotalLatency = 0
    THEN IF newTotalLatency > 0
         THEN [trend |-> "increased", change |-> <<100, 1>>]
         ELSE [trend |-> "stable", change |-> <<0, 1>>]
    ELSE LET num == (newTotalLatency - oldTotalLatency) * 100
             den == oldTotalLatency
         IN [trend |-> IF num >= 10 * den THEN "increased"
                       ELSE IF num <= (0 - 10) * den THEN "decreased"
                       ELSE "stable",
             change |-> <<num, den>>]

\* lines 199-220: trend and change; change is the fraction num / den
TrendOf(oldTotalLatency, newTotalLatency) ==
    IF oldTotalLatency = 0
    THEN IF newTotalLatency > 0
         THEN [trend |-> "increased", change |-> <<100, 1>>]
         ELSE [trend |-> "stable", change |-> <<0, 1>>]
    ELSE LET num == (newTotalLatency - oldTotalLatency) * 100
             den == oldTotalLatency
         IN [trend |-> IF num > 10 * den THEN "increased"
                       ELSE IF num < (0 - 10) * den THEN "decreased"
                       ELSE "stable",
             change |-> <<num, den>>]

\* a slip: one history entry is taken to be enough
GetLatencyTrendOffByOne(podName, duration, now) ==
    IF podName \notin DOMAIN metricsHistory
       \/ Len(metricsHistory[podName]) < MinTrendHistory - 1
    THEN [op |-> "GetLatencyTrend", podName |-> podName,
          duration |-> duration, now |-> now, trend |-> "unknown",
          change |-> <<0, 1>>, err |-> TRUE, baseline |-> 0]
    ELSE [op |-> "GetLatencyTrend", podName |-> podName,
          duration |-> duration, now |-> now, trend |-> "stable",
          change |-> <<0, 1>>, err |-> FALSE, baseline |-> 1]

\* the whole query, under RLock; baseline is the index the loop settled on
GetLatencyTrend(podName, duration, now) ==
    IF podName \notin DOMAIN metricsHistory
       \/ Len(metricsHistory[podName]) < MinTrendHistory
    THEN [op |-> "GetLatencyTrend", podName |-> podName,
          duration |-> duration, now |-> now, trend |-> "unknown",
          change |-> <<0, 1>>, err |-> TRUE, baseline |-> 0]
    ELSE LET history == metricsHistory[podName]
             latest == history[Len(history)]
             baseline == BaselineIndex(history, now, duration)
             oldestInRange == history[baseline]
             result == TrendOf(oldestInRange.ReadLatency
                                 + oldestInRange.WriteLatency,
                               latest.ReadLatency + latest.WriteLatency)
         IN [op |-> "GetLatencyTrend", podName |-> podName,
             duration |-> duration, now |-> now, trend |-> result.trend,
             change |-> result.change, err |-> FALSE, baseline |-> baseline]

----------------------------------------------------------------------------
(* StorageMonitor (part_000:282-598)                                       *)

Namespace == ""

\* part_000:468-471: the metrics object of a pod seen for the first time
NewPodMetrics(podName) ==
    [PodName |-> podName, Namespace |-> Namespace, ReadLatency |-> 0,
     WriteLatency |-> 0, ReadIOPS |-> 0, WriteIOPS |-> 0, ReadThroughput |-> 0,
     WriteThroughput |-> 0, QueueLatency |-> 0, DiskLatency |-> 0,
     NetworkLatency |-> 0, Timestamp |-> 0]

\* the upstream calls of collectMetrics, in call order (part_000:423-456)
UpstreamCalls == <<"ListPods", "GetIOStatsData", "GetIOPS", "GetThroughput",
                   "GetDiskLatencyData", "GetQueueLatencyData">>

\* a slip: the timestamp counts down from the time of the call
CollectStampReversed(now) == 0 - now

\* part_000:463,476: the timestamp a collection cycle gives its snapshots
CollectStamp(now) == now

\* a slip: every cycle starts from a new object
PreviousMetricsFresh(cur, podName) == NewPodMetrics(podName)

\* part_000:466-473: the pod's object, created when the pod is new
PreviousMetrics(cur, podName) ==
    IF podName \in DOMAIN cur THEN cur[podName] ELSE NewPodMetrics(podName)

\* part_000:466-504: one iteration of the loop over the listed pods
CollectPod(cur, podName, now, data) ==
    LET old == PreviousMetrics(cur, podName)
    IN [old EXCEPT
          !.Timestamp = CollectStamp(now),
          !.ReadLatency = IF podName \in DOMAIN data.ioStats
                          THEN data.ioStats[podName].ReadLatencyNs ELSE @,
          !.WriteLatency = IF podName \in DOMAIN data.ioStats
                           THEN data.ioStats[podName].WriteLatencyNs ELSE @,
          !.ReadIOPS = IF podName \in DOMAIN data.iops
                       THEN data.iops[podName].read_iops ELSE @,
          !.WriteIOPS = IF podName \in DOMAIN data.iops
                        THEN data.iops[podName].write_iops ELSE @,
          !.ReadThroughput = IF podName \in DOMAIN data.throughput
                             THEN data.throughput[podName].read_throughput_bps
                             ELSE @,
          !.WriteThroughput = IF podName \in DOMAIN data.throughput
                              THEN data.throughput[podName].write_throughput_bps
                              ELSE @,
          !.DiskLatency = IF podName \in DOMAIN data.diskLatency
                          THEN data.diskLatency[podName] ELSE @,
          !.QueueLatency = IF podName \in DOMAIN data.queueLatency
                           THEN data.queueLatency[podName] ELSE @]

\* the error collectMetrics wraps for each upstream call (part_000:425, 431,
\* 437, 443, 449, 455)
UpstreamErrors ==
    [ListPods |-> "failed to list pods",
     GetIOStatsData |-> "failed to get I/O stats data",
     GetIOPS |-> "failed to get IOPS data",
     GetThroughput |-> "failed to get throughput data",
     GetDiskLatencyData |-> "failed to get disk latency data",
     GetQueueLatencyData |-> "failed to get queue latency data"]

\* a slip: the errors of the two rate calls are not looked at
ErrorCheckedExceptRates(call) == call \notin {"GetIOPS", "GetThroughput"}

\* part_000:424, 430, 436, 442, 448, 454: the err of every upstream call is
\* tested right after the call
ErrorChecked(call) == call \in DOMAIN UpstreamErrors

\* what collectMetrics returns when failedCall is the first upstream call
\* that returns an error ("none": all succeed)
collectMetricsError(failedCall) ==
    IF failedCall # "none" /\ ErrorChecked(failedCall)
    THEN UpstreamErrors[failedCall] ELSE "nil"

\* a slip: the map is rebuilt from the listing
EntriesOfListing(known, pods) == pods

\* part_000:464-473: the keys of sm.metrics after the loop over the listing;
\* a listed pod without an entry gets one, and no entry is deleted
EntriesAfter(known, pods) == known \cup pods

\* collectMetrics (part_000:421-508).  failedCall is the first upstream call
\* that returns an error ("none": all succeed); every error return comes
\* before the lock is taken.  The update runs under metricsMutex.Lock.
collectMetrics(pods, data, failedCall) ==
    /\ metrics' =
         IF collectMetricsError(failedCall) # "nil" THEN metrics
         ELSE [p \in EntriesAfter(DOMAIN metrics, pods) |->
                 IF p \in pods THEN CollectPod(metrics, p, clock, data)
                 ELSE metrics[p]]
    /\ metricsHistory' = HistoryThrough(metricsHistory, metrics')
    /\ addInput' = ArgumentThrough(addInput, metrics')
    /\ allMetrics' = ArgumentThrough(allMetrics, metrics')

\* GetAllMetrics (part_000:405-416): a copy of every entry, under RLock
GetAllMetrics == [k \in DOMAIN metrics |-> metrics[k]]

\* part_000:411-412: the pointers GetAllMetrics returns
GetAllMetricsObjects == [k \in DOMAIN metrics |-> StructCopy(MonitorObject)]

\* GetTopIOPSPods (part_000:541-568) and GetTopThroughputPods (571-598): the
\* same code on two pairs of fields; kind names the pair
MonitorRankings == {"GetTopIOPSPods", "GetTopThroughputPods"}

\* part_000:555 and 585: the total a ranking compares
Total(m, kind) ==
    IF kind = "GetTopIOPSPods" THEN m.ReadIOPS + m.WriteIOPS
    ELSE m.ReadThroughput + m.WriteThroughput

\* a slip: the comparison is turned around
SwapNeededAscending(a, b, kind) == Total(a, kind) > Total(b, kind)

\* part_000:555 and 585: pods[i] and pods[j] are exchanged when the later
\* one has the larger total
SwapNeeded(a, b, kind) == Total(a, kind) < Total(b, kind)

\* part_000:553-559 and 583-589: the two nested loops from position <<i, j>>
\* on (indices from 1)
RECURSIVE ExchangeSort(_, _, _, _)
ExchangeSort(pods, i, j, kind) ==
    IF i >= Len(pods) THEN pods
    ELSE IF j > Len(pods) THEN ExchangeSort(pods, i + 1, i + 2, kind)
    ELSE ExchangeSort(IF SwapNeeded(pods[i], pods[j], kind)
                      THEN [pods EXCEPT ![i] = pods[j], ![j] = pods[i]]
                      ELSE pods,
                      i, j + 1, kind)

\* the whole query for one visiting order of the map, under RLock: a copy
\* of every entry (546-550), the sort, n clamped to the length (562-564)
\* and pods[:n] (567), which panics for n < 0
GetTopPods(kind, n, order) ==
    LET pods == ExchangeSort([i \in DOMAIN order |-> metrics[order[i]]],
                             1, 2, kind)
        clamped == IF n > Len(pods) THEN Len(pods) ELSE n
    IN IF clamped < 0 THEN Panicked("slice bounds out of range")
       ELSE Returned(SubSeq(pods, 1, clamped))

\* a slip: a pod without an entry gets a zero-valued snapshot and no error
GetPodMetricsZeroValue(podName) ==
    [metrics |-> <<IF podName \in DOMAIN metrics THEN metrics[podName]
                   ELSE NewPodMetrics(podName)>>,
     err |-> "nil"]

\* GetPodMetrics (part_000:390-402): an error for a pod without an entry,
\* else a copy of the entry
GetPodMetrics(podName) ==
    IF podName \notin DOMAIN metrics
    THEN [metrics |-> <<>>, err |-> "pod metrics not found"]
    ELSE [metrics |-> <<metrics[podName]>>, err |-> "nil"]

----------------------------------------------------------------------------
(* The BPF program (part_003): three hash maps and six handlers.  Every    *)
(* handler runs to completion on a signal of the kernel.                   *)

\* the keys of requests: struct request pointers of the block layer and
\* pid_tgid values of the threads inside vfs_read / vfs_write
BlockKeys == {"rq1"}
ThreadKeys == {"t1"}
Keys == BlockKeys \cup ThreadKeys

\* bpf_get_current_pid_tgid(): the task of a thread, and the tasks a block
\* request can be issued in
ThreadTask == [t1 |-> [pid |-> 1, tid |-> 1]]
Tasks == { ThreadTask[t] : t \in ThreadKeys } \cup {[pid |-> 2, tid |-> 2]}

\* lines 81, 109, 138: struct io_event_t io_event = {}
ZeroEvent ==
    [ts |-> 0, pid |-> 0, tid |-> 0, io_start |-> 0, io_end |-> 0,
     bytes |-> 0, operation |-> 0]

\* line 59: struct latency_info_t zero = {}
ZeroLatency ==
    [total_read_ns |-> 0, total_write_ns |-> 0, count_read |-> 0,
     count_write |-> 0]

\* a slip: a miss hands back a zeroed record instead of NULL
LookupOrZero(map, key) ==
    IF key \in DOMAIN map THEN <<map[key]>> ELSE <<ZeroEvent>>

\* the pointer to the value, <<>> for NULL
bpf_map_lookup_elem(map, key) ==
    IF key \in DOMAIN map THEN <<map[key]>> ELSE <<>>

\* a slip: BPF_NOEXIST, the value of an existing key is kept
UpdateNoExist(map, key, value, room) ==
    IF key \notin DOMAIN map /\ room THEN MapPut(map, key, value) ELSE map

\* BPF_ANY: an existing key is overwritten; a new key is stored when the
\* table has room (max_entries, lines 37 and 45), else the call fails
bpf_map_update_elem(map, key, value, room) ==
    IF key \in DOMAIN map \/ room THEN MapPut(map, key, value) ELSE map

\* a slip: the entry is left in the table
DeleteSkipped(map, key) == map

bpf_map_delete_elem(map, key) == MapDelete(map, key)

\* lines 58-76
update_latency_stats(latency, pid, duration, operation, room) ==
    LET created == IF pid \in DOMAIN latency THEN latency
                   ELSE bpf_map_update_elem(latency, pid, ZeroLatency, room)
    IN IF pid \notin DOMAIN created THEN created
       ELSE IF operation = 0
       THEN [created EXCEPT ![pid].total_read_ns = @ + duration,
                            ![pid].count_read = @ + 1]
       ELSE IF operation = 1
       THEN [created EXCEPT ![pid].total_write_ns = @ + duration,
                            ![pid].count_write = @ + 1]
       ELSE created

\* what a handler leaves with the verification: the signal, its key and
\* its time, whether the key was pending, the latest unmatched start signal
\* of the key, the maps as they were, the return value
Handled(op, key) ==
    [op |-> op, key |-> key, pending |-> key \in DOMAIN requests,
     now |-> clock, start |-> lastStart[key],
     before |-> <<requests, latency_by_pid, events>>, rc |-> 0]

\* a start signal of a task, as the kernel raised it
StartSignal(task) == <<[time |-> clock, pid |-> task.pid]>>

\* the io_event_t a start handler builds (lines 84-97, 140-147, 185-192)
StartEvent(task, operation, now) ==
    [ZeroEvent EXCEPT !.ts = now, !.io_start = now, !.pid = task.pid,
                      !.tid = task.tid, !.operation = operation]

\* lines 79-103
trace_block_rq_issue(req, task, operation, room) ==
    /\ requests' = bpf_map_update_elem(requests, req,
                                       StartEvent(task, operation, clock), room)
    /\ started' = [started EXCEPT ![req] = @ + 1]
    /\ lastStart' = [lastStart EXCEPT ![req] = StartSignal(task)]
    /\ ret' = Handled("trace_block_rq_issue", req)
    /\ UNCHANGED <<latency_by_pid, events, completed>>

\* lines 106-133
trace_block_rq_complete(req, room, sent) ==
    LET io_eventp == bpf_map_lookup_elem(requests, req)
    IN /\ ret' = Handled("trace_block_rq_complete", req)
       /\ IF io_eventp = <<>>
          THEN UNCHANGED <<requests, latency_by_pid, events, completed,
                           lastStart>>
          ELSE LET io_event == [io_eventp[1] EXCEPT !.io_end = clock]
                   duration == io_event.io_end - io_event.io_start
               IN /\ latency_by_pid' =
                        update_latency_stats(latency_by_pid, io_event.pid,
                                             duration, io_event.operation, room)
                  /\ events' = IF sent THEN Append(events, io_event)
                               ELSE events
                  /\ requests' = bpf_map_delete_elem(requests, req)
                  /\ completed' = [completed EXCEPT ![req] = @ + 1]
                  /\ lastStart' = [lastStart EXCEPT ![req] = <<>>]
       /\ UNCHANGED started

\* lines 136-154 (operation 0) and 181-199 (operation 1)
trace_vfs_entry(handler, id, operation, room) ==
    /\ requests' = bpf_map_update_elem(requests, id,
                                       StartEvent(ThreadTask[id], operation,
                                                  clock), room)
    /\ started' = [started EXCEPT ![id] = @ + 1]
    /\ lastStart' = [lastStart EXCEPT ![id] = StartSignal(ThreadTask[id])]
    /\ ret' = Handled(handler, id)
    /\ UNCHANGED <<latency_by_pid, events, completed>>

\* lines 157-178 and 202-223
trace_vfs_exit(handler, id, rc, room) ==
    LET io_eventp == bpf_map_lookup_elem(requests, id)
    IN /\ ret' = Handled(handler, id)
       /\ IF io_eventp = <<>>
          THEN UNCHANGED <<requests, latency_by_pid, completed, lastStart>>
          ELSE LET io_event == [io_eventp[1] EXCEPT !.bytes = rc,
                                                     !.io_end = clock]
                   duration == io_event.io_end - io_event.io_start
               IN /\ latency_by_pid' =
                        update_latency_stats(latency_by_pid, io_event.pid,
                                             duration, io_event.operation, room)
                  /\ requests' = bpf_map_delete_elem(requests, id)
                  /\ completed' = [completed EXCEPT ![id] = @ + 1]
                  /\ lastStart' = [lastStart EXCEPT ![id] = <<>>]
       /\ UNCHANGED <<events, started>>

\* the program is loaded, no signal yet
InitBpfIdle ==
    /\ requests = EmptyMap
    /\ latency_by_pid = EmptyMap
    /\ events = <<>>
    /\ started = [k \in Keys |-> 0]
    /\ completed = [k \in Keys |-> 0]
    /\ lastStart = [k \in Keys |-> <<>>]

----------------------------------------------------------------------------
(* ebpf.Monitor (part_001:179-480); time is counted in milliseconds        *)

\* part_001:296-333: the pod statistics GetIOStatsData builds
PodStats(now) ==
    [pod1 |-> [ReadLatencyNs |-> 1500000, WriteLatencyNs |-> 2500000,
               ReadOps |-> 3000, WriteOps |-> 2000,
               ReadBytes |-> 5 * 1024 * 1024, WriteBytes |-> 3 * 1024 * 1024,
               QueueLatencyNs |-> 500000, DiskLatencyNs |-> 1200000,
               LastUpdateTime |-> now],
     pod2 |-> [ReadLatencyNs |-> 3500000, WriteLatencyNs |-> 4500000,
               ReadOps |-> 2000, WriteOps |-> 1000,
               ReadBytes |-> 3 * 1024 * 1024, WriteBytes |-> 1 * 1024 * 1024,
               QueueLatencyNs |-> 700000, DiskLatencyNs |-> 1500000,
               LastUpdateTime |-> now],
     pod3 |-> [ReadLatencyNs |-> 2500000, WriteLatencyNs |-> 3500000,
               ReadOps |-> 1500, WriteOps |-> 500,
               ReadBytes |-> 2 * 1024 * 1024, WriteBytes |-> 500 * 1024,
               QueueLatencyNs |-> 400000, DiskLatencyNs |-> 900000,
               LastUpdateTime |-> now]]

\* part_001:335-338: the cache after GetIOStatsData ran at time now
CacheAfter(cache, now) ==
    [podName \in (DOMAIN cache) \cup (DOMAIN PodStats(now)) |->
       IF podName \in DOMAIN PodStats(now) THEN PodStats(now)[podName]
       ELSE cache[podName]]

\* part_001:289-347: the cache is refreshed, m.lastCollectTime = now, and a
\* copy of the cache is returned
GetIOStatsData(now) ==
    /\ ioStatsCache' = CacheAfter(ioStatsCache, now)
    /\ lastCollectTime' = now

\* a slip: a short elapsed time is replaced by the threshold itself
ElapsedTimeFloored(sinceMs) ==
    IF sinceMs < 1 THEN <<1, 1000>> ELSE <<sinceMs, 1000>>

\* part_001:414-417 and 444-447: time.Since(m.lastCollectTime).Seconds(),
\* replaced by 1.0 when below 0.001; <<ms, 1000>> is ms / 1000 seconds
ElapsedTime(sinceMs) == IF sinceMs < 1 THEN <<1000, 1000>> ELSE <<sinceMs, 1000>>

\* part_001:422-423 and 452-453: uint64(float64(count) / elapsedTime), the
\* quotient count * 1000 / ms taken in two parts
Rate(count, elapsedTime) ==
    LET ms == elapsedTime[1]
    IN (count \div ms) * elapsedTime[2]
         + ((count % ms) * elapsedTime[2]) \div ms

\* part_001:406-433; stats is what GetIOStatsData returned, sinceMs the
\* time from the lastCollectTime it set to the time.Since of line 414
GetIOPS(stats, sinceMs) ==
    [podName \in DOMAIN stats |->
       LET readIOPS == Rate(stats[podName].ReadOps, ElapsedTime(sinceMs))
           writeIOPS == Rate(stats[podName].WriteOps, ElapsedTime(sinceMs))
       IN [read_iops |-> readIOPS, write_iops |-> writeIOPS,
           total_iops |-> readIOPS + writeIOPS]]

\* part_001:436-463
GetThroughput(stats, sinceMs) ==
    [podName \in DOMAIN stats |->
       LET readThroughput ==
             Rate(stats[podName].ReadBytes, ElapsedTime(sinceMs))
           writeThroughput ==
             Rate(stats[podName].WriteBytes, ElapsedTime(sinceMs))
       IN [read_throughput_bps |-> readThroughput,
           write_throughput_bps |-> writeThroughput,
           total_throughput_bps |-> readThroughput + writeThroughput]]

\* no history of cycles, nothing shared
InitCycles ==
    /\ unfetched = [p \in Pods |-> 0]
    /\ fetched = [p \in Pods |-> 0]
    /\ collected = [op |-> "none"]
    /\ allShared = {}
    /\ aliased = [p \in Pods |-> {}]

\* the library on its own: no goroutine has been started
InitRunIdle ==
    /\ collectorPc = "none"
    /\ monitorCtx = "none"
    /\ stopChan = "open"
    /\ ctx = "none"
    /\ InitCycles
    /\ addCalls = <<>>

\* part_001:222-244: NewMonitor at time 0
InitEbpfMonitorIdle ==
    /\ ioStatsCache = EmptyMap
    /\ lastCollectTime = 0

----------------------------------------------------------------------------
(* Callers of the analyzer as a library                                    *)
(*                                                                         *)
(* A workload names the argument maps the callers may pass to AddMetrics,   *)
(* how many calls they make and the options the analyzer is built with.    *)
(* "mixed" drives two pods with snapshots of several bottleneck classes    *)
(* into short histories; the series workloads feed one pod a series that   *)
(* alternates between two levels, long enough for detectAnomaly to run.    *)

CapOptions == {0, 1, 2, 3}
SeriesCapOptions == {0, 10}
SeriesThresholdOptions == {0, 1}

\* idle, queue-bound, slow without a dominant component
AnalyzerInputs(pod) ==
    { PodStorageMetrics(pod, 0, 0, 0, 0, 0, 0),
      PodStorageMetrics(pod, 1000000, 1000000, 6000000, 1000000, 1000000, 1),
      PodStorageMetrics(pod, 11000000, 0, 2000000, 2000000, 0, 2) }

InputMaps(pods, Inputs(_)) ==
    UNION { { f \in [S -> UNION { Inputs(p) : p \in S }] :
                \A p \in S : f[p] \in Inputs(p) } : S \in SUBSET pods }

\* the two levels <<read, write, disk>> latency of each series workload
SeriesLevels ==
    [readStep  |-> {<<1, 1, 0>>, <<2, 1, 1>>},
     writeStep |-> {<<1, 1, 0>>, <<1, 2, 1>>},
     spike     |-> {<<1, 1, 0>>, <<10, 1, 0>>}]

SeriesWorkloads == DOMAIN SeriesLevels

SeriesInputs(w) ==
    { [p \in {"p1"} |-> PodStorageMetrics("p1", l[1], l[2], 0, l[3], 0, 0)] :
        l \in SeriesLevels[w] }

\* the "trend" workload: one pod, each snapshot stamped with the time of
\* the call, <<read, write>> latency at one of five levels (combined 0, 18,
\* 20, 22 and 25, so that changes of exactly +10% and -10% occur)
TrendLevels == {<<0, 0>>, <<9, 9>>, <<10, 10>>, <<11, 11>>, <<15, 10>>}

TrendInputs(now) ==
    { [p \in {"p1"} |-> PodStorageMetrics("p1", l[1], l[2], 0, 0, 0, now)] :
        l \in TrendLevels }

\* the "rank" workload: any subset of the pods, <<read, write>> latency at
\* one of two levels: the one with the larger read latency has the smaller
\* combined latency, and two pods at the same level tie
RankLevels == {<<2, 0>>, <<1, 2>>}

RankInputs(pod) ==
    { PodStorageMetrics(pod, l[1], l[2], 0, 0, 0, 0) : l \in RankLevels }

WorkloadMaps(w, now) ==
    CASE w = "mixed" -> InputMaps(Pods, AnalyzerInputs)
      [] w = "trend" -> TrendInputs(now)
      [] w = "rank" -> InputMaps(Pods, RankInputs) \ {EmptyMap}
      [] w = "frame" -> InputMaps(Pods, RankInputs)
      [] OTHER -> SeriesInputs(w)

WorkloadCalls(w) ==
    CASE w = "mixed" -> MaxAdds
      [] w = "trend" -> MaxTrendAdds
      [] w \in {"rank", "frame"} -> MaxRankAdds
      [] OTHER -> MaxAnomalyAdds

InitIdle ==
    /\ metrics = EmptyMap
    /\ clock = 0
    /\ loopPc = "idle"
    /\ allMetrics = EmptyMap
    /\ ret = NoReturn
    /\ nCalls = 0
    /\ supplied = [p \in Pods |-> <<>>]
    /\ InitBpfIdle
    /\ InitEbpfMonitorIdle
    /\ InitRunIdle

CallAddMetrics ==
    /\ nCalls < WorkloadCalls(workload)
    /\ nCalls' = nCalls + 1
    /\ \E input \in WorkloadMaps(workload, clock) : AddMetricsLock(input)
    /\ UNCHANGED <<metrics, clock, loopPc, allMetrics, ret, workload,
                   ebpfVars, runVars>>

StepAddMetricsPod ==
    /\ \E p \in Pods : AddMetricsPod(p)
    /\ UNCHANGED <<metrics, clock, loopPc, allMetrics, ret, workload,
                   ebpfVars, lifeVars, cycleVars, allShared, addCalls,
                   nCalls>>

ReturnAddMetrics ==
    /\ AddMetricsUnlock
    /\ UNCHANGED <<metrics, clock, loopPc, allMetrics, ret, workload,
                   ebpfVars, runVars, nCalls>>

NextAnalyzer ==
    \/ CallAddMetrics
    \/ StepAddMetricsPod
    \/ ReturnAddMetrics

(* SpecAnalyzer: the analyzer as a library, under every workload           *)

WorkloadCaps(w) == IF w = "mixed" THEN CapOptions ELSE SeriesCapOptions

WorkloadThresholds(w) == IF w = "mixed" THEN {0} ELSE SeriesThresholdOptions

InitAnalyzer ==
    /\ workload \in {"mixed"} \cup SeriesWorkloads
    /\ \E max \in WorkloadCaps(workload),
          threshold \in WorkloadThresholds(workload) :
         NewStorageAnalyzer(max, threshold)
    /\ InitIdle

SpecAnalyzer == InitAnalyzer /\ [][NextAnalyzer]_vars

----------------------------------------------------------------------------
(* SpecConcurrent: several goroutines call AddMetrics at the same time.    *)
(* A call arrives at sa.mu.Lock() (line 78), gets the lock when it is      *)
(* free, ranges over its argument and returns through the deferred Unlock. *)

MaxCallers == 2

InitConcurrent ==
    /\ workload = "mixed"
    /\ \E max \in CapOptions : NewStorageAnalyzer(max, 0)
    /\ InitIdle

\* a goroutine calls AddMetrics(input) and reaches line 78
ConcurrentCall ==
    /\ nCalls < MaxAdds
    /\ Len(addCalls) < MaxCallers
    /\ nCalls' = nCalls + 1
    /\ \E input \in WorkloadMaps(workload, clock) :
         addCalls' = Append(addCalls, input)
    /\ UNCHANGED <<analyzerVars, metrics, clock, loopVars, ret, workload,
                   ebpfVars, lifeVars, cycleVars, aliasVars, supplied>>

\* line 78: sa.mu.Lock() returns in one of the waiting calls
ConcurrentLock ==
    /\ \E i \in 1..Len(addCalls) :
         /\ AddMetricsLock(addCalls[i])
         /\ addCalls' = <<addCalls[i]>> \o SubSeq(addCalls, 1, i - 1)
                           \o SubSeq(addCalls, i + 1, Len(addCalls))
    /\ UNCHANGED <<metrics, clock, loopVars, ret, workload, ebpfVars,
                   lifeVars, cycleVars, aliasVars, nCalls>>

\* lines 82-99 in the call that holds the lock
ConcurrentPod ==
    /\ addCalls # <<>>
    /\ \E p \in Pods : AddMetricsPod(p)
    /\ UNCHANGED <<metrics, clock, loopVars, ret, workload, ebpfVars,
                   lifeVars, cycleVars, allShared, addCalls, nCalls>>

\* line 79: the deferred Unlock; the call returns
ConcurrentReturn ==
    /\ addCalls # <<>>
    /\ AddMetricsUnlock
    /\ addCalls' = Tail(addCalls)
    /\ UNCHANGED <<metrics, clock, loopVars, ret, workload, ebpfVars,
                   lifeVars, cycleVars, aliasVars, nCalls>>

NextConcurrent ==
    \/ ConcurrentCall
    \/ ConcurrentLock
    \/ ConcurrentPod
    \/ ConcurrentReturn

SpecConcurrent == InitConcurrent /\ [][NextConcurrent]_vars

----------------------------------------------------------------------------
(* Spec: the running system of cmd/main.  The collection goroutine         *)
(* (part_000:363-379) runs collectMetrics on its ticker, the analysis      *)
(* goroutine (main.go:113-139) runs GetAllMetrics, AddMetrics and          *)
(* GetTopNSlowPods on its own ticker, and the wall clock advances.         *)

\* what the event source reports for a pod in one cycle: <<read, write,
\* queue, disk>> latencies, then <<read, write>> IOPS and <<read, write>>
\* throughput; a pod may also be missing from the report
Profiles == { <<1000000, 1000000, 0, 8000000, 100, 50, 4096, 2048>>,
              <<11000000, 1000000, 6000000, 1000000, 10, 20, 512, 1024>> }

EventData(report) ==
    [ioStats |-> [p \in DOMAIN report |->
                    [ReadLatencyNs |-> report[p][1],
                     WriteLatencyNs |-> report[p][2]]],
     iops |-> [p \in DOMAIN report |->
                 [read_iops |-> report[p][5], write_iops |-> report[p][6]]],
     throughput |-> [p \in DOMAIN report |->
                       [read_throughput_bps |-> report[p][7],
                        write_throughput_bps |-> report[p][8]]],
     queueLatency |-> [p \in DOMAIN report |-> report[p][3]],
     diskLatency |-> [p \in DOMAIN report |-> report[p][4]]]

\* the pods of the monitored namespace
SystemPods == {"p1"}

Reports == UNION { [S -> Profiles] : S \in SUBSET SystemPods }

FailedCalls == {"none"} \cup { UpstreamCalls[i] : i \in DOMAIN UpstreamCalls }

\* time passes
Tick ==
    /\ clock < MaxClock
    /\ clock' = clock + 1
    /\ UNCHANGED <<analyzerVars, metrics, loopVars, ret, workload, ebpfVars,
                   runVars, supplied, nCalls>>

\* the runs that keep the history of the cycles
KeepsCycleHistory == workload = "cycles"

\* history of the cycles: what a collection cycle was given and returned,
\* the monitor's map it started from and, for a failed cycle, the analyzer
\* it left behind
Cycle(pods, data, failedCall) ==
    [op |-> "collectMetrics", failed |-> failedCall # "none", pods |-> pods,
     data |-> data, now |-> clock,
     err |-> collectMetricsError(failedCall),
     before |-> metrics,
     analyzer |-> IF failedCall = "none" THEN <<>>
                  ELSE <<metricsHistory, podBottlenecks, anomalyDetected>>,
     settled |-> /\ loopPc = "wait"
                 /\ \A p \in DOMAIN unfetched : unfetched[p] = 0,
     ticks |-> 0]

\* part_000:369-372: the collection ticker fires; failures are the outcomes
\* the upstream calls of the cycle can have
CollectCycle(failures) ==
    /\ collectorPc = "select"
    /\ \E pods \in SUBSET SystemPods, report \in Reports,
          failedCall \in failures :
         /\ collectMetrics(pods, EventData(report), failedCall)
         /\ collected' = IF KeepsCycleHistory
                          THEN Cycle(pods, EventData(report), failedCall)
                          ELSE collected
         /\ unfetched' = [p \in DOMAIN unfetched |->
                            IF /\ KeepsCycleHistory
                               /\ failedCall = "none"
                               /\ p \in pods
                            THEN Min(unfetched[p] + 1, 2) ELSE unfetched[p]]
    /\ UNCHANGED <<maxHistoryPerPod, podBottlenecks, anomalyDetected,
                   anomalyThreshold, mu, clock, loopPc, ret, workload,
                   ebpfVars, lifeVars, fetched, aliasVars, addCalls,
                   supplied, nCalls>>

CollectTick == CollectCycle(FailedCalls)

\* a slip: the select has no case for the channel
ReadyNever(channel) == FALSE

\* a receive case of a select is ready once the channel is closed: a
\* cancelled context's Done() (part_000:373, main.go:135) or the closed
\* stopChan (part_000:375)
Ready(channel) == channel \in {"done", "closed"}

\* part_000:373-376: monitorCtx.Done() or sm.stopChan is ready and the select
\* takes it; the goroutine returns
CollectorExit ==
    /\ collectorPc = "select"
    /\ Ready(monitorCtx) \/ Ready(stopChan)
    /\ collectorPc' = "exited"
    /\ UNCHANGED <<analyzerVars, metrics, clock, loopVars, ret, workload,
                   ebpfVars, monitorCtx, stopChan, ctx, cycleVars, aliasVars,
                   addCalls, supplied, nCalls>>

\* Stop (part_000:385-387), called once by main (main.go:156)
StorageMonitorStop ==
    /\ stopChan = "open"
    /\ stopChan' = "closed"
    /\ UNCHANGED <<analyzerVars, metrics, clock, loopVars, ret, workload,
                   ebpfVars, collectorPc, monitorCtx, ctx, cycleVars,
                   aliasVars, addCalls, supplied, nCalls>>

\* main.go:53: the caller cancels ctx; monitorCtx is derived from it
\* (part_000:358)
CancelContext ==
    /\ ctx = "active"
    /\ ctx' = "done"
    /\ monitorCtx' = "done"
    /\ UNCHANGED <<analyzerVars, metrics, clock, loopVars, ret, workload,
                   ebpfVars, collectorPc, stopChan, cycleVars, aliasVars,
                   addCalls, supplied, nCalls>>

\* main.go:119-121: the analysis ticker fires; allMetrics := GetAllMetrics()
LoopGetAllMetrics ==
    /\ loopPc = "wait"
    /\ nCalls < MaxCycles
    /\ nCalls' = nCalls + 1
    /\ allMetrics' = GetAllMetrics
    /\ allShared' = { k \in DOMAIN metrics :
                        GetAllMetricsObjects[k] = MonitorObject }
    /\ fetched' = unfetched
    /\ unfetched' = [p \in DOMAIN unfetched |-> 0]
    /\ collected' = IF collected.op = "none" THEN collected
                    ELSE [collected EXCEPT !.ticks = Min(@ + 1, 2)]
    /\ loopPc' = "add"
    /\ UNCHANGED <<analyzerVars, metrics, clock, ret, workload, ebpfVars,
                   lifeVars, aliased, addCalls, supplied>>

\* main.go:124: storageAnalyzer.AddMetrics(allMetrics), entry
LoopAddMetrics ==
    /\ loopPc = "add"
    /\ AddMetricsLock(allMetrics)
    /\ loopPc' = "adding"
    /\ UNCHANGED <<metrics, clock, allMetrics, ret, workload, ebpfVars,
                   runVars, nCalls>>

LoopAddMetricsPod ==
    /\ loopPc = "adding"
    /\ \E p \in Pods : AddMetricsPod(p)
    /\ UNCHANGED <<metrics, clock, loopVars, ret, workload, ebpfVars,
                   lifeVars, cycleVars, allShared, addCalls, nCalls>>

LoopAddMetricsReturn ==
    /\ loopPc = "adding"
    /\ AddMetricsUnlock
    /\ loopPc' = "top"
    /\ UNCHANGED <<metrics, clock, allMetrics, ret, workload, ebpfVars,
                   runVars, nCalls>>

\* main.go:127-133: GetTopNSlowPods(5), logged; then back to the select
LoopTopSlowPods ==
    /\ loopPc = "top"
    /\ mu = "free"
    /\ loopPc' = "wait"
    /\ fetched' = [p \in DOMAIN fetched |-> 0]
    /\ UNCHANGED <<analyzerVars, metrics, clock, allMetrics, ret, workload,
                   ebpfVars, lifeVars, unfetched, collected, aliasVars,
                   addCalls, supplied, nCalls>>

\* main.go:135-136: ctx.Done() is ready and the select takes it
AnalysisExit ==
    /\ loopPc = "wait"
    /\ Ready(ctx)
    /\ loopPc' = "exited"
    /\ UNCHANGED <<analyzerVars, metrics, clock, allMetrics, ret, workload,
                   ebpfVars, runVars, supplied, nCalls>>

\* Start (part_000:357-382) as it leaves the monitor: the goroutine is at
\* its select and the deferred cancel of line 359 has run on return
StorageMonitorStarted ==
    /\ collectorPc = "select"
    /\ monitorCtx = "done"
    /\ stopChan = "open"

\* main.go:52-139: the monitor and the analyzer as main constructs them,
\* the monitor started and the analysis goroutine at its select
InitRunning ==
    /\ NewStorageAnalyzer(100, 2)
    /\ metrics = EmptyMap
    /\ clock = 0
    /\ loopPc = "wait"
    /\ allMetrics = EmptyMap
    /\ ret = NoReturn
    /\ nCalls = 0
    /\ supplied = [p \in Pods |-> <<>>]
    /\ InitBpfIdle
    /\ InitEbpfMonitorIdle
    /\ StorageMonitorStarted
    /\ ctx = "active"
    /\ InitCycles
    /\ addCalls = <<>>

Init ==
    /\ workload = "system"
    /\ InitRunning

Next ==
    \/ Tick
    \/ CollectTick
    \/ LoopGetAllMetrics
    \/ LoopAddMetrics
    \/ LoopAddMetricsPod
    \/ LoopAddMetricsReturn
    \/ LoopTopSlowPods

Spec == Init /\ [][Next]_vars

----------------------------------------------------------------------------
(* SpecLife: the running system with its shutdown: Stop, the cancellation  *)
(* of main's context and the two goroutines leaving their loops.           *)

NextLife ==
    \/ CollectTick
    \/ CollectorExit
    \/ StorageMonitorStop
    \/ CancelContext
    \/ LoopGetAllMetrics
    \/ LoopAddMetrics
    \/ LoopAddMetricsPod
    \/ LoopAddMetricsReturn
    \/ LoopTopSlowPods
    \/ AnalysisExit

SpecLife == Init /\ [][NextLife]_vars

\* Go's select takes a ready case with equal chance among the ready ones, so
\* a Done or stop case that is ready at every visit of the select cannot
\* lose for ever; a goroutine inside an iteration keeps running
SpecLifeFair ==
    /\ SpecLife
    /\ SF_vars(CollectorExit)
    /\ SF_vars(AnalysisExit)
    /\ WF_vars(LoopAddMetrics)
    /\ WF_vars(LoopAddMetricsPod)
    /\ WF_vars(LoopAddMetricsReturn)
    /\ WF_vars(LoopTopSlowPods)

----------------------------------------------------------------------------
(* SpecCollect: the monitor alone, its collection cycles and the clock,    *)
(* with the history of the last cycle.  SpecCycles: the two goroutines     *)
(* with the history of which collections the analysis has read.            *)

InitRecorded ==
    /\ workload = "cycles"
    /\ InitRunning

NextCollect ==
    \/ Tick
    \/ CollectTick

SpecCollect == InitRecorded /\ [][NextCollect]_vars

NextCycles ==
    \/ CollectTick
    \/ LoopGetAllMetrics
    \/ LoopAddMetrics
    \/ LoopAddMetricsPod
    \/ LoopAddMetricsReturn
    \/ LoopTopSlowPods

SpecCycles == InitRecorded /\ [][NextCycles]_vars

\* SpecGrow: the two goroutines with upstream calls that never fail; the
\* wall clock is followed over the collections that come before the first
\* analysis tick
NoFailures == {"none"}

CollectTickAnswered == CollectCycle(NoFailures)

NextGrow ==
    \/ nCalls = 0 /\ Tick
    \/ CollectTickAnswered
    \/ LoopGetAllMetrics
    \/ LoopAddMetrics
    \/ LoopAddMetricsPod
    \/ LoopAddMetricsReturn
    \/ LoopTopSlowPods

SpecGrow == InitRecorded /\ [][NextGrow]_vars

----------------------------------------------------------------------------
(* SpecTrend: one caller appends clock-stamped snapshots and asks for the  *)
(* trend; a query's result stays with the caller until it moves on.        *)

TrendCapOptions == {0, 2}
Durations == {0, 1, 2}

InitTrend ==
    /\ workload = "trend"
    /\ \E max \in TrendCapOptions : NewStorageAnalyzer(max, 0)
    /\ InitIdle

TrendTick ==
    /\ clock < MaxTrendClock
    /\ clock' = clock + 1
    /\ UNCHANGED <<analyzerVars, metrics, loopVars, ret, workload, ebpfVars,
                   runVars, supplied, nCalls>>

CallGetLatencyTrend ==
    /\ mu = "free"
    /\ \E podName \in Pods, duration \in Durations :
         ret' = GetLatencyTrend(podName, duration, clock)
    /\ UNCHANGED <<analyzerVars, metrics, clock, loopVars, workload, ebpfVars,
                   runVars, supplied, nCalls>>

DropReturn ==
    /\ ret' = NoReturn
    /\ UNCHANGED <<analyzerVars, metrics, clock, loopVars, workload, ebpfVars,
                   runVars, supplied, nCalls>>

NextTrend ==
    \/ ret = NoReturn /\ NextAnalyzer
    \/ ret = NoReturn /\ TrendTick
    \/ ret = NoReturn /\ CallGetLatencyTrend
    \/ ret # NoReturn /\ DropReturn

SpecTrend == InitTrend /\ [][NextTrend]_vars

----------------------------------------------------------------------------
(* SpecRank: one caller feeds snapshots and asks for the slowest pods; it  *)
(* may ask again at once, and may write to a snapshot it was handed.       *)

RankCapOptions == {2}
TopNOptions == {0, 1, 2, 3}
\* the values the caller writes
WrittenLatencies == {7}

InitRank ==
    /\ workload = "rank"
    /\ \E max \in RankCapOptions : NewStorageAnalyzer(max, 0)
    /\ InitIdle

\* GetTopNSlowPods(n) returns; values is what the caller reads through the
\* pointers at that moment, prior the result of the call just before on the
\* same analyzer state with the same n
CallGetTopNSlowPods ==
    /\ mu = "free"
    /\ \E n \in TopNOptions, order \in RangeOrders(PodsWithHistory) :
         LET result == GetTopNSlowPods(n, order)
         IN ret' = [op |-> "GetTopNSlowPods", n |-> n, result |-> result,
                    values |-> [i \in DOMAIN result |-> Deref(result[i])],
                    prior |-> IF ret.op = "GetTopNSlowPods" /\ ret.n = n
                              THEN <<ret.result>> ELSE <<>>]
    /\ UNCHANGED <<analyzerVars, metrics, clock, loopVars, workload, ebpfVars,
                   runVars, supplied, nCalls>>

\* the caller assigns to a field of a snapshot it was handed: the write
\* goes to the object the pointer names
ModifyReturned ==
    /\ ret.op = "GetTopNSlowPods"
    /\ \E i \in DOMAIN ret.result, written \in WrittenLatencies :
         LET ptr == ret.result[i]
         IN metricsHistory' =
              [metricsHistory EXCEPT ![ptr[1]][ptr[2]].ReadLatency = written]
    /\ ret' = [ret EXCEPT !.op = "modified"]
    /\ UNCHANGED <<maxHistoryPerPod, podBottlenecks, anomalyDetected,
                   anomalyThreshold, mu, addInput, metrics, clock, loopVars,
                   workload, ebpfVars, runVars, supplied, nCalls>>

NextRank ==
    \/ ret = NoReturn /\ NextAnalyzer
    \/ ret.op \in {"none", "GetTopNSlowPods"} /\ CallGetTopNSlowPods
    \/ ModifyReturned
    \/ ret # NoReturn /\ DropReturn

SpecRank == InitRank /\ [][NextRank]_vars

----------------------------------------------------------------------------
(* API server (part_000:1-281): the two metrics handlers, each a sequence  *)
(* of calls into the monitor and the analyzer, every call taking and       *)
(* releasing the callee's lock on its own.  SpecApi runs one request at a   *)
(* time next to the collection and analysis goroutines of the system.      *)

\* part_000:266-281: the response structure, field by field
convertToPodMetrics(m) ==
    [PodName |-> m.PodName, Namespace |-> m.Namespace,
     ReadLatency |-> m.ReadLatency, WriteLatency |-> m.WriteLatency,
     ReadIOPS |-> m.ReadIOPS, WriteIOPS |-> m.WriteIOPS,
     ReadThroughput |-> m.ReadThroughput,
     WriteThroughput |-> m.WriteThroughput,
     QueueLatency |-> m.QueueLatency, DiskLatency |-> m.DiskLatency,
     NetworkLatency |-> m.NetworkLatency, Timestamp |-> m.Timestamp]

\* a slip: an unseen pod is reported as having no bottleneck
GetBottleneckTypeDefaultNone(podName) ==
    IF podName \notin DOMAIN podBottlenecks
    THEN [bottleneck |-> BottleneckTypeNone, exists |-> FALSE]
    ELSE [bottleneck |-> podBottlenecks[podName], exists |-> TRUE]

\* storage_analyzer.go:146-156; exists is kept for the verification
GetBottleneckType(podName) ==
    IF podName \notin DOMAIN podBottlenecks
    THEN [bottleneck |-> BottleneckTypeUnknown, exists |-> FALSE]
    ELSE [bottleneck |-> podBottlenecks[podName], exists |-> TRUE]

\* storage_analyzer.go:159-169
HasAnomalyDetected(podName) ==
    IF podName \notin DOMAIN anomalyDetected THEN FALSE
    ELSE anomalyDetected[podName]

\* the pods each map of the analyzer has an entry for
MapKeys ==
    <<DOMAIN metricsHistory, DOMAIN podBottlenecks, DOMAIN anomalyDetected>>

\* a caller of the library asks for a pod's bottleneck (lines 146-156): a
\* lookup under RLock; before keeps the keys of the maps at the call
CallGetBottleneckType ==
    /\ mu = "free"
    /\ \E podName \in Pods :
         ret' = [op |-> "GetBottleneckType", podName |-> podName,
                 result |-> GetBottleneckType(podName).bottleneck,
                 before |-> MapKeys]
    /\ UNCHANGED <<analyzerVars, metrics, clock, loopVars, workload, ebpfVars,
                   runVars, supplied, nCalls>>

\* ... and for its anomaly flag (lines 159-169)
CallHasAnomalyDetected ==
    /\ mu = "free"
    /\ \E podName \in Pods :
         ret' = [op |-> "HasAnomalyDetected", podName |-> podName,
                 result |-> HasAnomalyDetected(podName),
                 before |-> MapKeys]
    /\ UNCHANGED <<analyzerVars, metrics, clock, loopVars, workload, ebpfVars,
                   runVars, supplied, nCalls>>

\* SpecQuery: one caller feeds snapshots and asks about any pod
NextQuery ==
    \/ ret = NoReturn /\ NextAnalyzer
    \/ ret = NoReturn /\ CallGetBottleneckType
    \/ ret = NoReturn /\ CallHasAnomalyDetected
    \/ ret # NoReturn /\ DropReturn

SpecQuery == InitRank /\ [][NextQuery]_vars

----------------------------------------------------------------------------
(* SpecTop: one caller feeds the analyzer, the monitor collects for two    *)
(* pods, and the three ranking queries are asked with any n.               *)

TopNRange == {-1, 0, 1, 2, 3}

TopReports == UNION { [S -> Profiles] : S \in SUBSET Pods }

\* a collection cycle of the monitor over any listing of the two pods
TopCollect ==
    /\ \E pods \in SUBSET Pods, report \in TopReports,
          failedCall \in FailedCalls :
         collectMetrics(pods, EventData(report), failedCall)
    /\ UNCHANGED <<maxHistoryPerPod, podBottlenecks, anomalyDetected,
                   anomalyThreshold, mu, clock, loopPc, ret, workload,
                   ebpfVars, runVars, supplied, nCalls>>

\* GetTopNSlowPods(n) ends; before keeps the state the call was made on
CallTopSlowPods ==
    /\ mu = "free"
    /\ \E n \in TopNRange, order \in RangeOrders(PodsWithHistory) :
         ret' = [op |-> "GetTopNSlowPods", n |-> n,
                 call |-> GetTopNSlowPodsCall(n, order),
                 entities |-> PodsWithHistory, before |-> metrics]
    /\ UNCHANGED <<analyzerVars, metrics, clock, loopVars, workload, ebpfVars,
                   runVars, supplied, nCalls>>

\* GetTopIOPSPods(n) or GetTopThroughputPods(n) ends
CallTopPods ==
    /\ \E kind \in MonitorRankings, n \in TopNRange,
          order \in RangeOrders(DOMAIN metrics) :
         ret' = [op |-> kind, n |-> n, call |-> GetTopPods(kind, n, order),
                 entities |-> DOMAIN metrics, before |-> metrics]
    /\ UNCHANGED <<analyzerVars, metrics, clock, loopVars, workload, ebpfVars,
                   runVars, supplied, nCalls>>

NextTop ==
    \/ ret = NoReturn /\ NextAnalyzer
    \/ ret = NoReturn /\ TopCollect
    \/ ret = NoReturn /\ CallTopSlowPods
    \/ ret = NoReturn /\ CallTopPods
    \/ ret # NoReturn /\ DropReturn

SpecTop == InitRank /\ [][NextTop]_vars

----------------------------------------------------------------------------
(* SpecFrame: one caller hands the analyzer any map, the empty one         *)
(* included, and asks each of its four queries.                            *)

InitFrame ==
    /\ workload = "frame"
    /\ \E max \in RankCapOptions : NewStorageAnalyzer(max, 0)
    /\ InitIdle

NextFrame ==
    \/ ret = NoReturn /\ NextAnalyzer
    \/ ret = NoReturn /\ CallTopSlowPods
    \/ ret = NoReturn /\ CallGetBottleneckType
    \/ ret = NoReturn /\ CallHasAnomalyDetected
    \/ ret = NoReturn /\ CallGetLatencyTrend
    \/ ret # NoReturn /\ DropReturn

SpecFrame == InitFrame /\ [][NextFrame]_vars

\* part_000:198: the trend period 5 * time.Minute, in clock ticks
TrendPeriod == 300
\* part_000:135: GetTopNSlowPods(5)
TopSlowPodsCount == 5

ApiHandlers == {"handleGetAllMetrics", "handleGetPodMetrics"}

\* part_000:172 and 151, 210
StatusNotFound == 404
StatusOK == 200

ApiRequest(handler, podMetrics) ==
    [op |-> handler,
     pc |-> IF DOMAIN podMetrics = {} THEN "finish" ELSE "bottleneck",
     pending |-> DOMAIN podMetrics, cur |-> "",
     podMetrics |-> [q \in DOMAIN podMetrics |->
                       convertToPodMetrics(podMetrics[q])],
     bottlenecks |-> EmptyMap, exists |-> EmptyMap, anomalies |-> EmptyMap,
     extra |-> <<>>, status |-> 0, request |-> "", got |-> <<>>,
     seen |-> EmptyMap]

\* part_000:112: allPodMetrics := s.storageMonitor.GetAllMetrics()
ApiGetAllMetrics ==
    /\ ret = NoReturn
    /\ ret' = ApiRequest("handleGetAllMetrics", GetAllMetrics)
    /\ UNCHANGED <<analyzerVars, metrics, clock, loopVars, workload, ebpfVars,
                   runVars, supplied, nCalls>>

\* part_000:170-174: GetPodMetrics(podName); an error is answered with 404
\* and ends the handler.  got and seen keep what the call returned and the
\* monitor's map it was made on.
ApiGetPodMetrics ==
    /\ ret = NoReturn
    /\ \E podName \in Pods :
         LET got == GetPodMetrics(podName)
             request ==
               IF got.err # "nil"
               THEN [ApiRequest("handleGetPodMetrics", EmptyMap)
                       EXCEPT !.pc = "done", !.status = StatusNotFound]
               ELSE ApiRequest("handleGetPodMetrics",
                               [q \in {podName} |-> got.metrics[1]])
         IN ret' = [request EXCEPT !.request = podName, !.got = got,
                                   !.seen = metrics]
    /\ UNCHANGED <<analyzerVars, metrics, clock, loopVars, workload, ebpfVars,
                   runVars, supplied, nCalls>>

\* part_000:124 and 184: GetBottleneckType for a pod of the response
ApiGetBottleneckType ==
    /\ ret.op \in ApiHandlers
    /\ ret.pc = "bottleneck"
    /\ mu = "free"
    /\ \E podName \in ret.pending :
         LET got == GetBottleneckType(podName)
         IN ret' = [ret EXCEPT
                      !.bottlenecks = MapPut(@, podName, got.bottleneck),
                      !.exists = MapPut(@, podName, got.exists),
                      !.cur = podName,
                      !.pc = "anomaly"]
    /\ UNCHANGED <<analyzerVars, metrics, clock, loopVars, workload, ebpfVars,
                   runVars, supplied, nCalls>>

\* part_000:128 and 185: HasAnomalyDetected for the same pod
ApiHasAnomalyDetected ==
    /\ ret.op \in ApiHandlers
    /\ ret.pc = "anomaly"
    /\ mu = "free"
    /\ ret' = [ret EXCEPT
                 !.anomalies = MapPut(@, ret.cur, HasAnomalyDetected(ret.cur)),
                 !.pending = @ \ {ret.cur},
                 !.pc = IF ret.pending = {ret.cur} THEN "finish"
                        ELSE "bottleneck"]
    /\ UNCHANGED <<analyzerVars, metrics, clock, loopVars, workload, ebpfVars,
                   runVars, supplied, nCalls>>

\* part_000:132-138: the five slowest pods; part_000:197-206: the trend
ApiFinish ==
    /\ ret.op \in ApiHandlers
    /\ ret.pc = "finish"
    /\ mu = "free"
    /\ IF ret.op = "handleGetAllMetrics"
       THEN \E order \in RangeOrders(PodsWithHistory) :
              LET slowPods == GetTopNSlowPods(TopSlowPodsCount, order)
              IN ret' = [ret EXCEPT
                           !.extra = [i \in DOMAIN slowPods |->
                                        convertToPodMetrics(Deref(slowPods[i]))],
                           !.status = StatusOK,
                           !.pc = "done"]
       ELSE ret' = [ret EXCEPT
                      !.extra = <<GetLatencyTrend(ret.cur, TrendPeriod, clock)>>,
                      !.status = StatusOK,
                      !.pc = "done"]
    /\ UNCHANGED <<analyzerVars, metrics, clock, loopVars, workload, ebpfVars,
                   runVars, supplied, nCalls>>

\* part_000:150-152 and 209-211: the response is written
ApiRespond ==
    /\ ret.op \in ApiHandlers
    /\ ret.pc = "done"
    /\ DropReturn

\* the goroutines of the system at one instant of the wall clock (the
\* handlers do not depend on how much time passes between the steps)
NextApi ==
    \/ CollectTick
    \/ LoopGetAllMetrics
    \/ LoopAddMetrics
    \/ LoopAddMetricsPod
    \/ LoopAddMetricsReturn
    \/ LoopTopSlowPods
    \/ ApiGetAllMetrics
    \/ ApiGetPodMetrics
    \/ ApiGetBottleneckType
    \/ ApiHasAnomalyDetected
    \/ ApiFinish
    \/ ApiRespond

SpecApi == Init /\ [][NextApi]_vars

----------------------------------------------------------------------------
(* SpecBpf: the kernel raises start and completion signals in any order    *)

goVars == <<analyzerVars, metrics, loopVars, workload, supplied, runVars>>

Operations == {0, 1}
ReturnValues == {0, 8}

InitBpf ==
    /\ workload = "bpf"
    /\ NewStorageAnalyzer(0, 0)
    /\ InitIdle

\* bpf_ktime_get_ns() moves on
BpfTick ==
    /\ clock < MaxBpfClock
    /\ clock' = clock + 1
    /\ UNCHANGED <<goVars, ret, nCalls, ebpfVars>>

BlockIssue ==
    /\ \E req \in BlockKeys, task \in Tasks, operation \in Operations,
          room \in BOOLEAN :
         trace_block_rq_issue(req, task, operation, room)

BlockComplete ==
    /\ \E req \in BlockKeys, room \in BOOLEAN, sent \in BOOLEAN :
         trace_block_rq_complete(req, room, sent)

VfsReadEntry ==
    /\ \E id \in ThreadKeys, room \in BOOLEAN :
         trace_vfs_entry("trace_vfs_read_entry", id, 0, room)

VfsReadExit ==
    /\ \E id \in ThreadKeys, rc \in ReturnValues, room \in BOOLEAN :
         trace_vfs_exit("trace_vfs_read_exit", id, rc, room)

VfsWriteEntry ==
    /\ \E id \in ThreadKeys, room \in BOOLEAN :
         trace_vfs_entry("trace_vfs_write_entry", id, 1, room)

VfsWriteExit ==
    /\ \E id \in ThreadKeys, rc \in ReturnValues, room \in BOOLEAN :
         trace_vfs_exit("trace_vfs_write_exit", id, rc, room)

\* one more signal of the kernel
Signal ==
    /\ nCalls < MaxSignals
    /\ nCalls' = nCalls + 1
    /\ UNCHANGED <<goVars, clock, ebpfMonitorVars>>

NextBpf ==
    \/ BpfTick
    \/ Signal /\ BlockIssue
    \/ Signal /\ BlockComplete
    \/ Signal /\ VfsReadEntry
    \/ Signal /\ VfsReadExit
    \/ Signal /\ VfsWriteEntry
    \/ Signal /\ VfsWriteExit

SpecBpf == InitBpf /\ [][NextBpf]_vars

\* the handlers run only when the kernel raises a signal, and nothing in
\* the program runs on its own; all that is certain is that time passes
SpecBpfLive == SpecBpf /\ WF_vars(BpfTick)

----------------------------------------------------------------------------
(* SpecRates: a caller of ebpf.Monitor asks for statistics and rates at    *)
(* intervals of one or two seconds                                         *)

\* milliseconds between two calls, and between GetIOStatsData's time.Now()
\* and the time.Since that follows it inside GetIOPS / GetThroughput
Intervals == {1000, 2000}
InCallDelays == {0, 4}

InitRates ==
    /\ workload = "rates"
    /\ NewStorageAnalyzer(0, 0)
    /\ InitIdle

RatesTick ==
    /\ clock < MaxRatesClock * 1000
    /\ \E interval \in Intervals : clock' = clock + interval
    /\ UNCHANGED <<goVars, ret, nCalls, ebpfVars>>

RatesCall ==
    /\ nCalls < MaxRatesCalls
    /\ nCalls' = nCalls + 1
    /\ UNCHANGED <<goVars, bpfVars>>

CallGetIOStatsData ==
    /\ RatesCall
    /\ GetIOStatsData(clock)
    /\ ret' = [op |-> "GetIOStatsData", calledAt |-> clock,
               previousCollect |-> lastCollectTime,
               result |-> CacheAfter(ioStatsCache, clock)]
    /\ UNCHANGED clock

CallGetIOPS ==
    /\ RatesCall
    /\ GetIOStatsData(clock)
    /\ \E delay \in InCallDelays :
         /\ clock' = clock + delay
         /\ ret' = [op |-> "GetIOPS", calledAt |-> clock,
                    previousCollect |-> lastCollectTime,
                    stats |-> CacheAfter(ioStatsCache, clock),
                    since |-> delay, elapsedTime |-> ElapsedTime(delay),
                    result |-> GetIOPS(CacheAfter(ioStatsCache, clock), delay)]

CallGetThroughput ==
    /\ RatesCall
    /\ GetIOStatsData(clock)
    /\ \E delay \in InCallDelays :
         /\ clock' = clock + delay
         /\ ret' = [op |-> "GetThroughput", calledAt |-> clock,
                    previousCollect |-> lastCollectTime,
                    stats |-> CacheAfter(ioStatsCache, clock),
                    since |-> delay, elapsedTime |-> ElapsedTime(delay),
                    result |-> GetThroughput(CacheAfter(ioStatsCache, clock),
                                             delay)]

NextRates ==
    \/ RatesTick
    \/ CallGetIOStatsData
    \/ CallGetIOPS
    \/ CallGetThroughput

SpecRates == InitRates /\ [][NextRates]_vars

----------------------------------------------------------------------------
(* SpecClassify: analyzeBottleneck applied to one snapshot                 *)

\* sub-latencies below, at and above the queue threshold
SubLatencies == {0, QueueLatencyThreshold, QueueLatencyThreshold + 1, 6000000}
ReadLatencies == {1000000, ReadLatencyThreshold, ReadLatencyThreshold + 1}
WriteLatencies == {1000000, WriteLatencyThreshold, WriteLatencyThreshold + 1}

ClassifyInputs ==
    { [PodStorageMetrics("p1", rd, wr, qu, di, ne, ts)
         EXCEPT !.ReadIOPS = ts * 50] :
        rd \in ReadLatencies, wr \in WriteLatencies, qu \in SubLatencies,
        di \in SubLatencies, ne \in SubLatencies, ts \in {0, 1} }

InitClassify ==
    /\ workload = "classify"
    /\ NewStorageAnalyzer(0, 0)
    /\ metrics = EmptyMap
    /\ clock = 0
    /\ loopPc = "idle"
    /\ allMetrics = EmptyMap
    /\ nCalls = 0
    /\ supplied = [p \in Pods |-> <<>>]
    /\ InitBpfIdle
    /\ InitEbpfMonitorIdle
    /\ InitRunIdle
    /\ \E m \in ClassifyInputs :
         ret = [op |-> "analyzeBottleneck", arg |-> m, result |-> "pending"]

\* sa.analyzeBottleneck(podMetrics), storage_analyzer.go:95
Classify ==
    /\ ret.result = "pending"
    /\ ret' = [ret EXCEPT !.result = analyzeBottleneck(ret.arg)]
    /\ UNCHANGED <<analyzerVars, metrics, clock, loopVars, workload, ebpfVars,
                   runVars, supplied, nCalls>>

NextClassify == Classify

SpecClassify == InitClassify /\ [][NextClassify]_vars

----------------------------------------------------------------------------
(* Claims about the bounded history                                        *)

\* a reader (RLock) can run: AddMetrics does not hold the write lock
ReaderCanObserve == mu = "free"

\* C1: in every state a reader can observe, every entity's history is at
\* most maxHistoryPerPod long, and the capacity is at least 1 (a configured
\* value <= 0 leaves the default 100 in place).
C1_HistoryWithinCapacity ==
    /\ maxHistoryPerPod >= 1
    /\ maxHistoryPerPod \in ((CapOptions \cup SeriesCapOptions) \ {0})
                              \cup {DefaultMaxHistoryPerPod}
    /\ ReaderCanObserve =>
         \A p \in DOMAIN metricsHistory :
           Len(metricsHistory[p]) <= maxHistoryPerPod

\* an entity was supplied more often than the capacity and its history is full
C1_Witness ==
    /\ ReaderCanObserve
    /\ \E p \in DOMAIN metricsHistory :
         /\ Len(supplied[p]) > maxHistoryPerPod
         /\ Len(metricsHistory[p]) = maxHistoryPerPod

\* C2: after k AddMetrics calls naming an entity have returned, its history
\* is the last min(k, capacity) snapshots supplied for it, in supply order.
C2_HistoryIsLastSupplied ==
    ReaderCanObserve =>
      \A p \in Pods :
        SliceAt(metricsHistory, p) =
          LastK(supplied[p], Min(Len(supplied[p]), maxHistoryPerPod))

\* an eviction happened and the retained entries are distinguishable
C2_Witness ==
    /\ ReaderCanObserve
    /\ \E p \in DOMAIN metricsHistory :
         /\ Len(supplied[p]) > maxHistoryPerPod
         /\ Len(metricsHistory[p]) >= 2
         /\ metricsHistory[p][1] # metricsHistory[p][2]
         /\ supplied[p][1] # metricsHistory[p][1]

\* C3: in the running system, adjacent entries of every entity's history
\* have non-decreasing timestamps.
C3_TimestampsNonDecreasing ==
    \A p \in DOMAIN metricsHistory :
      \A i \in 1..(Len(metricsHistory[p]) - 1) :
        metricsHistory[p][i].Timestamp <= metricsHistory[p][i + 1].Timestamp

\* one snapshot was appended twice (no collection in between, a failed cycle
\* or the pod left the listing) and a later collection was appended after it
C3_Witness ==
    \E p \in DOMAIN metricsHistory :
      /\ Len(metricsHistory[p]) >= 3
      /\ metricsHistory[p][1].Timestamp = metricsHistory[p][2].Timestamp
      /\ metricsHistory[p][2].Timestamp < metricsHistory[p][3].Timestamp

----------------------------------------------------------------------------
(* Claims about the per-cycle analysis results                             *)

LastOf(s) == s[Len(s)]

\* C4: in every state a reader can observe, the bottleneck and anomaly maps
\* have an entry for exactly the entities with history, every such history
\* is non-empty, the stored bottleneck is the classification of the last
\* history entry and the stored flag is the detection over the whole history.
C4_ResultsMatchHistory ==
    ReaderCanObserve =>
      /\ DOMAIN podBottlenecks = DOMAIN metricsHistory
      /\ DOMAIN anomalyDetected = DOMAIN metricsHistory
      /\ \A p \in DOMAIN metricsHistory :
           /\ metricsHistory[p] # <<>>
           /\ podBottlenecks[p] = analyzeBottleneck(LastOf(metricsHistory[p]))
           /\ anomalyDetected[p] =
                detectAnomaly(metricsHistory, p, anomalyThreshold)

\* detection ran on a long history, raised the flag, and the classification
\* of the last entry differs from that of the entry before it
C4_Witness ==
    /\ ReaderCanObserve
    /\ \E p \in DOMAIN metricsHistory :
         LET h == metricsHistory[p]
         IN /\ Len(h) >= MinAnomalyHistory
            /\ anomalyDetected[p]
            /\ analyzeBottleneck(h[Len(h)]) # analyzeBottleneck(h[Len(h) - 1])
            /\ podBottlenecks[p] = BottleneckTypeDisk

\* C7: with fewer than 10 history entries the anomaly flag is false whatever
\* the latencies are; with exactly 10 the flag is the outcome of the z-score
\* test, so detection first runs on the call that makes the length 10.
C7_NoDetectionBelowTen ==
    ReaderCanObserve =>
      \A p \in DOMAIN anomalyDetected :
        LET h == metricsHistory[p]
        IN /\ Len(h) < 10 => anomalyDetected[p] = FALSE
           /\ Len(h) = 10 =>
                anomalyDetected[p] =
                  (\/ SeriesZScoreExceeds(h, "ReadLatency", anomalyThreshold)
                   \/ SeriesZScoreExceeds(h, "WriteLatency", anomalyThreshold))

\* nine entries whose z-score test would raise the flag, had it run
C7_Witness ==
    /\ ReaderCanObserve
    /\ \E p \in DOMAIN anomalyDetected :
         /\ Len(metricsHistory[p]) = 9
         /\ SeriesZScoreExceeds(metricsHistory[p], "ReadLatency",
                                anomalyThreshold)
         /\ anomalyDetected[p] = FALSE

\* C8 (as claimed): ten identical snapshots followed by one whose read
\* latency is ten times theirs raise the anomaly flag at threshold 2.0.
C8_SpikeIsFlagged ==
    \A p \in DOMAIN anomalyDetected :
      LET h == metricsHistory[p]
      IN (/\ ReaderCanObserve
          /\ anomalyThreshold = 2
          /\ Len(h) = 11
          /\ \A i \in 1..10 : h[i] = h[1]
          /\ h[1].ReadLatency > 0
          /\ h[11] = [h[1] EXCEPT !.ReadLatency = 10 * h[1].ReadLatency])
         => anomalyDetected[p] = TRUE

\* population statistics of a series, scaled to integers:
\* mean = SeriesSum / n, variance = SeriesScaledVariance / n^2
SeriesSum(h, f) == SumOver(h, f)

RECURSIVE SumOfSquares(_, _)
SumOfSquares(s, f) ==
    IF s = <<>> THEN 0 ELSE s[1][f] * s[1][f] + SumOfSquares(Tail(s), f)

SeriesScaledVariance(h, f) ==
    Len(h) * SumOfSquares(h, f) - SeriesSum(h, f) * SeriesSum(h, f)

\* (latest - mean) / variance > threshold, for a series of positive variance
ReferenceZExceeds(h, f, threshold) ==
    /\ SeriesScaledVariance(h, f) > 0
    /\ (Len(h) * LastOf(h)[f] - SeriesSum(h, f)) * Len(h)
         > threshold * SeriesScaledVariance(h, f)

----------------------------------------------------------------------------
(* Claims about analyzeBottleneck                                          *)

\* the five rules of the classifier, in priority order, over the five
\* latency fields
ReferenceClassify(rd, wr, qu, di, ne) ==
    CASE qu > 5000000 /\ qu > di /\ qu > ne -> "queue"
      [] ~(qu > 5000000 /\ qu > di /\ qu > ne) /\ di > qu /\ di > ne -> "disk"
      [] ~(di > qu /\ di > ne) /\ ne > qu /\ ne > di -> "network"
      [] /\ ~(qu > 5000000 /\ qu > di /\ qu > ne)
         /\ ~(di > qu /\ di > ne)
         /\ ~(ne > qu /\ ne > di)
         /\ (rd > 10000000 \/ wr > 20000000) -> "unknown"
      [] OTHER -> "none"

Classified == ret.op = "analyzeBottleneck" /\ ret.result # "pending"

\* C5: the result is that of the five-rule reference and is a function of
\* the five latency fields alone.
C5_ClassifyIsFiveRules ==
    Classified =>
      ret.result = ReferenceClassify(ret.arg.ReadLatency, ret.arg.WriteLatency,
                                     ret.arg.QueueLatency, ret.arg.DiskLatency,
                                     ret.arg.NetworkLatency)

\* the queue latency is the strict maximum but only equal to its threshold,
\* and the read latency is over its threshold: rule 4 decides
C5_Witness ==
    /\ Classified
    /\ ret.arg.QueueLatency = QueueLatencyThreshold
    /\ ret.arg.DiskLatency < ret.arg.QueueLatency
    /\ ret.arg.NetworkLatency < ret.arg.QueueLatency
    /\ ret.arg.ReadLatency > ReadLatencyThreshold
    /\ ret.arg.ReadIOPS > 0
    /\ ret.result = "unknown"

\* two of the three sub-latencies are equal and no third is above them
TiedMaximum(m) ==
    \/ m.QueueLatency = m.DiskLatency /\ m.NetworkLatency <= m.QueueLatency
    \/ m.QueueLatency = m.NetworkLatency /\ m.DiskLatency <= m.QueueLatency
    \/ m.DiskLatency = m.NetworkLatency /\ m.QueueLatency <= m.DiskLatency

\* C6 (as claimed): a tie for the maximum among queue, disk and network
\* latency classifies as unknown.
C6_TiesAreUnknown ==
    (Classified /\ TiedMaximum(ret.arg)) => ret.result = "unknown"

\* C6 (amended): a tie for the maximum never classifies as queue, disk or
\* network; it is unknown when the read latency is over 10ms or the write
\* latency over 20ms, and none otherwise.
C6_TiesFallThrough ==
    (Classified /\ TiedMaximum(ret.arg)) =>
      ret.result = IF \/ ret.arg.ReadLatency > 10000000
                      \/ ret.arg.WriteLatency > 20000000
                   THEN "unknown" ELSE "none"

\* a tie above the queue threshold with read and write below theirs: none
C6_Witness ==
    /\ Classified
    /\ ret.arg.QueueLatency = ret.arg.DiskLatency
    /\ ret.arg.QueueLatency > QueueLatencyThreshold
    /\ ret.arg.NetworkLatency < ret.arg.QueueLatency
    /\ ret.result = "none"

----------------------------------------------------------------------------
(* Claims about GetLatencyTrend                                            *)

TrendReturned == ret.op = "GetLatencyTrend" /\ ~ret.err

\* the indices of the queried history whose timestamp is within the window
InWindow ==
    { i \in 1..Len(metricsHistory[ret.podName]) :
        metricsHistory[ret.podName][i].Timestamp >= ret.now - ret.duration }

SetMin(S) == CHOOSE x \in S : \A y \in S : x <= y

\* C10 (as claimed): the baseline is the oldest snapshot whose timestamp is
\* >= now - window, and the oldest snapshot of all only when no snapshot
\* lies within the window.
C10_BaselineIsOldestInWindow ==
    TrendReturned =>
      metricsHistory[ret.podName][ret.baseline] =
        metricsHistory[ret.podName][IF InWindow # {} THEN SetMin(InWindow)
                                    ELSE 1]

\* combined latency of the baseline the query settled on, and of the latest
OldCombined ==
    metricsHistory[ret.podName][ret.baseline].ReadLatency
      + metricsHistory[ret.podName][ret.baseline].WriteLatency

NewCombined ==
    LastOf(metricsHistory[ret.podName]).ReadLatency
      + LastOf(metricsHistory[ret.podName]).WriteLatency

\* the direction the claim gives for old > 0: the change is above 10% when
\* 10 * new > 11 * old and below -10% when 10 * new < 9 * old
ReferenceDirection(old, new) ==
    CASE old = 0 /\ new > 0 -> "increased"
      [] old = 0 /\ new = 0 -> "stable"
      [] old > 0 /\ 10 * new > 11 * old -> "increased"
      [] old > 0 /\ 10 * new < 9 * old -> "decreased"
      [] OTHER -> "stable"

\* ret.change = <<num, den>> is the claimed percentage
ChangeIsReference(old, new) ==
    IF old = 0
    THEN ret.change[1] = (IF new > 0 THEN 100 ELSE 0) * ret.change[2]
    ELSE ret.change[1] * old = (new - old) * 100 * ret.change[2]

\* C11: for the chosen baseline and the latest snapshot with combined
\* latencies old and new, the query returns (increased, 100) if old = 0 and
\* new > 0, (stable, 0) if both are 0, and otherwise change =
\* (new - old) / old * 100 with increased above 10, decreased below -10 and
\* stable in between, the boundaries +10 and -10 included.
C11_TrendIsPercentChange ==
    TrendReturned =>
      /\ ret.trend = ReferenceDirection(OldCombined, NewCombined)
      /\ ChangeIsReference(OldCombined, NewCombined)
      /\ ret.change[2] > 0

\* a change of exactly +10% was reported as stable
C11_Witness ==
    /\ TrendReturned
    /\ OldCombined > 0
    /\ 10 * NewCombined = 11 * OldCombined
    /\ ret.trend = "stable"

\* C12: a query for a pod that is unseen or has fewer than 2 entries
\* returns an error with direction "unknown" and change 0; a query for a
\* pod with 2 or more entries returns no error, and a result without error
\* is never "unknown".
C12_InsufficientDataIsError ==
    ret.op = "GetLatencyTrend" =>
      /\ ret.err <=> (\/ ret.podName \notin DOMAIN metricsHistory
                      \/ Len(metricsHistory[ret.podName]) < 2)
      /\ ret.err => ret.trend = "unknown" /\ ret.change[1] = 0
      /\ ~ret.err => ret.trend \in {"increased", "decreased", "stable"}

\* a pod with exactly one entry was queried and the query failed, while
\* another pod has never been seen
C12_Witness ==
    /\ ret.op = "GetLatencyTrend"
    /\ ret.podName \in DOMAIN metricsHistory
    /\ Len(metricsHistory[ret.podName]) = 1
    /\ ret.err
    /\ \E p \in Pods : p \notin DOMAIN metricsHistory

----------------------------------------------------------------------------
(* Claims about GetTopNSlowPods                                            *)

TopNReturned == ret.op = "GetTopNSlowPods"

Combined(m) == m.ReadLatency + m.WriteLatency

\* C13: for n >= 0, GetTopNSlowPods(n) returns exactly min(n, number of pods
\* with history) snapshots, each the latest snapshot of a distinct pod, in
\* non-increasing order of ReadLatency + WriteLatency, and no pod left out
\* has a larger combined latency than a returned one.
C13_TopNIsRanking ==
    TopNReturned =>
      LET result == ret.result
          returnedPods == { result[i][1] : i \in DOMAIN result }
      IN /\ Len(result) = Min(ret.n, Cardinality(PodsWithHistory))
         /\ \A i \in DOMAIN result :
              /\ result[i][1] \in PodsWithHistory
              /\ result[i][2] = Len(metricsHistory[result[i][1]])
              /\ ret.values[i] = LastOf(metricsHistory[result[i][1]])
         /\ \A i, j \in DOMAIN result : i # j => result[i][1] # result[j][1]
         /\ \A i, j \in DOMAIN result :
              i < j => Combined(ret.values[i]) >= Combined(ret.values[j])
         /\ \A p \in PodsWithHistory \ returnedPods :
              \A i \in DOMAIN result :
                Combined(LastOf(metricsHistory[p])) <= Combined(ret.values[i])

\* the slower of two pods was returned and the other one cut off
C13_Witness ==
    /\ TopNReturned
    /\ ret.n = 1
    /\ Len(ret.result) = 1
    /\ \E p \in PodsWithHistory :
         Combined(LastOf(metricsHistory[p])) < Combined(ret.values[1])

\* C14 (as claimed): two GetTopNSlowPods(n) calls on the same analyzer
\* state return the same sequence, also when pods have equal combined
\* latency.
C14_RepeatedRankingIsSame ==
    (TopNReturned /\ ret.prior # <<>>) => ret.result = ret.prior[1]

\* C15 (as claimed): after the caller has modified a snapshot it was
\* handed, the stored history still holds the values that were returned.
C15_ReturnedSnapshotsAreCopies ==
    ret.op = "modified" =>
      \A i \in DOMAIN ret.result : Deref(ret.result[i]) = ret.values[i]

----------------------------------------------------------------------------
(* Claims about the API responses                                          *)

ResponseBuilt == ret.op \in ApiHandlers /\ ret.pc = "done"

\* C16 (as claimed): with collection and analysis cycles running next to
\* the queries, a response never pairs a pod's metrics with a bottleneck
\* type computed from a different snapshot of that pod: a bottleneck the
\* analyzer had stored equals classify applied to the snapshot reported in
\* the same response.
C16_ResponseIsConsistent ==
    ResponseBuilt =>
      \A p \in DOMAIN ret.bottlenecks :
        ret.exists[p] =>
          ret.bottlenecks[p] = analyzeBottleneck(ret.podMetrics[p])

----------------------------------------------------------------------------
(* Claims about the BPF program                                            *)

CompletionOps ==
    {"trace_block_rq_complete", "trace_vfs_read_exit", "trace_vfs_write_exit"}

\* C17: a completion signal whose key has no pending start records nothing,
\* returns 0, and leaves the pending table, the per-process latency
\* counters and the event buffer as they were.
C17_UnmatchedCompletionIsDropped ==
    (ret.op \in CompletionOps /\ ~ret.pending) =>
      /\ <<requests, latency_by_pid, events>> = ret.before
      /\ ret.rc = 0

\* an unmatched completion arrived while another key was pending and
\* counters had been recorded before
C17_Witness ==
    /\ ret.op \in CompletionOps
    /\ ~ret.pending
    /\ DOMAIN requests # {}
    /\ DOMAIN latency_by_pid # {}

RECURSIVE SumSet(_, _)
SumSet(f, S) ==
    IF S = {} THEN 0
    ELSE LET x == CHOOSE y \in S : TRUE IN f[x] + SumSet(f, S \ {x})

\* the operations counted in latency_by_pid
CountedOperations ==
    SumSet([pid \in DOMAIN latency_by_pid |->
              latency_by_pid[pid].count_read + latency_by_pid[pid].count_write],
           DOMAIN latency_by_pid)

\* C18: for every key the completions recorded never exceed the start
\* signals, neither in the counters nor in the event buffer, and right
\* after a matched completion the key is not pending.
C18_AtMostOneCompletionPerStart ==
    /\ \A k \in Keys : completed[k] <= started[k]
    /\ CountedOperations <= SumSet(started, Keys)
    /\ Len(events) <= SumSet(started, BlockKeys)
    /\ (ret.op \in CompletionOps /\ ret.pending) =>
         ret.key \notin DOMAIN requests

\* a second completion of a key came without a new start and matched
\* nothing
C18_Witness ==
    /\ ret.op \in CompletionOps
    /\ ~ret.pending
    /\ completed[ret.key] >= 1
    /\ completed[ret.key] = started[ret.key]

\* C19 (as claimed): a pending start does not stay in the table for ever:
\* its completion removes it, and when the completion never arrives it is
\* dropped all the same.
C19_PendingEventuallyRemoved ==
    \A k \in Keys : (k \in DOMAIN requests) ~> (k \notin DOMAIN requests)

----------------------------------------------------------------------------
(* Claims about the rates of ebpf.Monitor                                  *)

RatesReturned == ret.op \in {"GetIOPS", "GetThroughput"}

\* milliseconds from the previous collection to this one
SincePreviousCollect == ret.calledAt - ret.previousCollect

\* count per second over ms milliseconds, rounded down
PerSecond(count, ms) == (count \div ms) * 1000 + ((count % ms) * 1000) \div ms

\* C20 (as claimed): the rates a collection reports are the operations
\* (bytes) it counted divided by the seconds elapsed since the previous
\* collection.
C20_RateIsCountOverElapsed ==
    (RatesReturned /\ SincePreviousCollect > 0) =>
      \A podName \in DOMAIN ret.result :
        IF ret.op = "GetIOPS"
        THEN /\ ret.result[podName].read_iops =
                  PerSecond(ret.stats[podName].ReadOps, SincePreviousCollect)
             /\ ret.result[podName].write_iops =
                  PerSecond(ret.stats[podName].WriteOps, SincePreviousCollect)
        ELSE /\ ret.result[podName].read_throughput_bps =
                  PerSecond(ret.stats[podName].ReadBytes, SincePreviousCollect)
             /\ ret.result[podName].write_throughput_bps =
                  PerSecond(ret.stats[podName].WriteBytes,
                            SincePreviousCollect)

----------------------------------------------------------------------------
(* The cycles of the running system                                        *)

\* the analysis goroutine has read the monitor and is appending what it read
AnalysisAppends == loopPc \in {"add", "adding", "top"}

\* C21: every collection is appended to the history exactly once: when the
\* analysis loop appends a pod's snapshot, exactly one collection of that pod
\* has happened since the previous append (none appended twice), and no
\* second collection of a pod happens before the first was read (none
\* skipped).
C21_OneAppendPerCollection ==
    /\ \A p \in SystemPods : unfetched[p] <= 1
    /\ AnalysisAppends => \A p \in DOMAIN allMetrics : fetched[p] = 1

\* the last collection cycle succeeded and listed p, and the event source
\* had nothing for p
ListedButUnobserved(p) ==
    /\ collected.op = "collectMetrics"
    /\ ~collected.failed
    /\ p \in collected.pods
    /\ p \notin DOMAIN collected.data.ioStats
    /\ p \notin DOMAIN collected.data.iops
    /\ p \notin DOMAIN collected.data.throughput
    /\ p \notin DOMAIN collected.data.queueLatency
    /\ p \notin DOMAIN collected.data.diskLatency

\* the values p had before the last cycle (of a pod new in that cycle: the
\* zero values of its new object)
BeforeCycle(p) ==
    IF p \in DOMAIN collected.before THEN collected.before[p]
    ELSE NewPodMetrics(p)

\* C22: a pod listed in a successful cycle but absent from the event-source
\* data keeps its previous read, write, queue, disk and network latency and
\* gets the timestamp of the cycle.
C22_UnobservedPodKeepsLatencies ==
    \A p \in SystemPods :
      ListedButUnobserved(p) =>
        /\ metrics[p].ReadLatency = BeforeCycle(p).ReadLatency
        /\ metrics[p].WriteLatency = BeforeCycle(p).WriteLatency
        /\ metrics[p].QueueLatency = BeforeCycle(p).QueueLatency
        /\ metrics[p].DiskLatency = BeforeCycle(p).DiskLatency
        /\ metrics[p].NetworkLatency = BeforeCycle(p).NetworkLatency
        /\ metrics[p].Timestamp = collected.now

\* a pod with non-zero latencies from an earlier cycle goes unobserved in a
\* later cycle at a later time
C22_Witness ==
    \E p \in SystemPods :
      /\ ListedButUnobserved(p)
      /\ p \in DOMAIN collected.before
      /\ collected.before[p].ReadLatency > 0
      /\ collected.before[p].DiskLatency > 0
      /\ collected.before[p].Timestamp < collected.now
      /\ metrics[p].ReadLatency = collected.before[p].ReadLatency

\* C23: a pod with no observed activity in a cycle has read and write IOPS
\* and read and write throughput 0 in that cycle's snapshot.
C23_UnobservedPodHasZeroRates ==
    \A p \in SystemPods :
      ListedButUnobserved(p) =>
        /\ metrics[p].ReadIOPS = 0
        /\ metrics[p].WriteIOPS = 0
        /\ metrics[p].ReadThroughput = 0
        /\ metrics[p].WriteThroughput = 0

\* the last collection cycle failed while the analysis goroutine was idle
\* with every earlier collection appended, and the analysis iteration of the
\* one tick since then is over
AnalysedAfterFailedCycle ==
    /\ collected.op = "collectMetrics"
    /\ collected.failed
    /\ collected.settled
    /\ collected.ticks = 1
    /\ loopPc \in {"top", "wait"}

\* C24: a failed collection cycle is skipped: after the analysis tick that
\* follows it the analyzer's history, bottleneck map and anomaly map are what
\* they were before the failed cycle.
C24_FailedCycleLeavesAnalyzerAlone ==
    AnalysedAfterFailedCycle =>
      <<metricsHistory, podBottlenecks, anomalyDetected>> = collected.analyzer

----------------------------------------------------------------------------
(* The goroutines and their shutdown                                       *)

\* a shutdown has been requested: Stop was called or the caller's context
\* was cancelled
ShutdownRequested == stopChan = "closed" \/ ctx = "done"

\* C25: while no shutdown is requested the collection loop keeps running: it
\* never exits before Stop is called or the caller cancels the context.
C25_CollectorRunsUntilShutdown ==
    collectorPc = "exited" => ShutdownRequested

\* C26: after a stop request (Stop or the cancellation of the context) the
\* collection goroutine eventually exits, and after main's context is
\* cancelled the analysis goroutine eventually exits.
C26_GoroutinesExitAfterShutdown ==
    /\ ShutdownRequested ~> (collectorPc = "exited")
    /\ (ctx = "done") ~> (loopPc = "exited")

\* both goroutines have run, a shutdown was requested both ways and both
\* goroutines are gone
C26_Witness ==
    /\ stopChan = "closed"
    /\ ctx = "done"
    /\ collectorPc = "exited"
    /\ loopPc = "exited"
    /\ metricsHistory # EmptyMap

----------------------------------------------------------------------------
(* Concurrent callers of the analyzer                                      *)

\* the call that holds sa.mu and a call that has not got past sa.mu.Lock()
Holder == addCalls[1]
Waiting == { i \in 2..Len(addCalls) : mu = "write" }

\* C27: AddMetrics calls for different entities do not block each other: a
\* call is never kept waiting at the lock by a call in progress whose
\* argument names none of its entities.
C27_DisjointCallsDoNotWait ==
    \A i \in Waiting :
      (DOMAIN addCalls[i] # {} /\ DOMAIN Holder # {}) =>
        (DOMAIN addCalls[i]) \cap (DOMAIN Holder) # {}

----------------------------------------------------------------------------
(* Queries for pods that are not there                                     *)

\* a request for one pod's metrics is being handled or has been answered
PodRequested == ret.op = "handleGetPodMetrics"

\* C28: GetPodMetrics for a pod without a snapshot returns an error and no
\* snapshot, and handleGetPodMetrics answers 404; for a pod with a snapshot
\* it returns the values of that snapshot and no error.
C28_MissingPodIsNotFound ==
    PodRequested =>
      IF ret.request \notin DOMAIN ret.seen
      THEN /\ ret.got.err # "nil"
           /\ ret.got.metrics = <<>>
           /\ ret.status = StatusNotFound
           /\ ret.pc = "done"
           /\ ret.podMetrics = EmptyMap
      ELSE /\ ret.got.err = "nil"
           /\ ret.got.metrics = <<ret.seen[ret.request]>>
           /\ ret.status # StatusNotFound
           /\ ret.podMetrics =
                [q \in {ret.request} |->
                   convertToPodMetrics(ret.seen[ret.request])]

\* a pod that has no snapshot is asked for while another request, earlier or
\* later, finds one; here the 404
C28_Witness ==
    /\ PodRequested
    /\ ret.request \notin DOMAIN ret.seen
    /\ ret.status = StatusNotFound
    /\ ret.seen # EmptyMap

\* a query about a pod that no AddMetrics call has named has returned
UnseenPodQueried ==
    /\ ret.op \in {"GetBottleneckType", "HasAnomalyDetected"}
    /\ supplied[ret.podName] = <<>>

\* C29: for a pod that never appeared in an AddMetrics call GetBottleneckType
\* returns unknown and HasAnomalyDetected returns false, and the query adds
\* the pod to none of the analyzer's maps.
C29_UnseenPodHasDefaults ==
    UnseenPodQueried =>
      /\ ret.op = "GetBottleneckType" => ret.result = BottleneckTypeUnknown
      /\ ret.op = "HasAnomalyDetected" => ret.result = FALSE
      /\ MapKeys = ret.before
      /\ \A i \in 1..3 : ret.podName \notin MapKeys[i]

\* the analyzer knows another pod when the unseen one is asked about
C29_Witness ==
    /\ UnseenPodQueried
    /\ ret.op = "GetBottleneckType"
    /\ ret.result = BottleneckTypeUnknown
    /\ DOMAIN podBottlenecks # {}

----------------------------------------------------------------------------
(* Stored snapshots                                                        *)

\* the snapshots of p handed to AddMetrics that the range loop has reached
StoredSoFar(p) ==
    IF mu = "write" /\ p \in DOMAIN addInput
    THEN SubSeq(supplied[p], 1, Len(supplied[p]) - 1)
    ELSE supplied[p]

\* C30: a snapshot in a pod's history has the field values it was given to
\* AddMetrics with, for as long as it stays there: whatever the collection
\* cycles write to the monitor's objects and whatever the API handlers and
\* the analysis loop ask for, the history is the tail of what was stored,
\* value by value.
C30_StoredSnapshotsKeepTheirValues ==
    \A p \in DOMAIN metricsHistory :
      /\ Len(metricsHistory[p]) <= Len(StoredSoFar(p))
      /\ metricsHistory[p] = LastK(StoredSoFar(p), Len(metricsHistory[p]))

\* the monitor's object of a pod was overwritten with other values after a
\* snapshot of it was stored, and an API response has been built since
C30_Witness ==
    /\ ret.op \in ApiHandlers
    /\ ret.pc = "done"
    /\ \E p \in DOMAIN metricsHistory :
         /\ Len(metricsHistory[p]) >= 2
         /\ p \in DOMAIN metrics
         /\ \A i \in 1..Len(metricsHistory[p]) :
              metricsHistory[p][i].ReadLatency # metrics[p].ReadLatency

----------------------------------------------------------------------------
(* The ranking queries                                                     *)

RankingQueries == {"GetTopNSlowPods"} \cup MonitorRankings

RankingAsked == ret.op \in RankingQueries

\* C31: GetTopNSlowPods(n), GetTopIOPSPods(n) and GetTopThroughputPods(n)
\* return normally for every integer n in every state, and for n <= 0 the
\* result is the empty sequence.
C31_RankingQueriesAlwaysReturn ==
    RankingAsked =>
      /\ ret.call.outcome = "return"
      /\ ret.n <= 0 => ret.call.result = <<>>

\* a ranking of the monitor has returned for some n >= 0
MonitorRanked ==
    /\ ret.op \in MonitorRankings
    /\ ret.n >= 0
    /\ ret.call.outcome = "return"

\* C35: for n >= 0 GetTopIOPSPods(n) returns min(n, number of pods) copies
\* of the snapshots of distinct pods, in non-increasing order of ReadIOPS +
\* WriteIOPS, no pod left out having a larger total than a returned one, and
\* leaves the monitor's metrics as they were; GetTopThroughputPods(n) does
\* the same with ReadThroughput + WriteThroughput.
C35_MonitorRankingIsTopN ==
    MonitorRanked =>
      LET result == ret.call.result
          names == { result[i].PodName : i \in DOMAIN result }
      IN /\ Len(result) = Min(ret.n, Cardinality(ret.entities))
         /\ Cardinality(names) = Len(result)
         /\ \A i \in DOMAIN result :
              /\ result[i].PodName \in ret.entities
              /\ result[i] = ret.before[result[i].PodName]
         /\ \A i \in 1..(Len(result) - 1) :
              Total(result[i], ret.op) >= Total(result[i + 1], ret.op)
         /\ \A q \in ret.entities \ names : \A i \in DOMAIN result :
              Total(ret.before[q], ret.op) <= Total(result[i], ret.op)
         /\ metrics = ret.before

\* two pods with different totals, and only the larger one is returned
C35_Witness ==
    /\ MonitorRanked
    /\ ret.n = 1
    /\ Cardinality(ret.entities) = 2
    /\ \E q \in ret.entities :
         Total(ret.before[q], ret.op) < Total(ret.call.result[1], ret.op)

----------------------------------------------------------------------------
(* The divisor of the rates                                                *)

\* the elapsed time was below 0.001 s and 1.0 took its place
Substituted == RatesReturned /\ ret.since < 1

\* C32: the divisor of GetIOPS and GetThroughput is the elapsed time since
\* lastCollectTime, or 1.0 when that is below 0.001 s: it is never zero and
\* never below 0.001, and when 1.0 was substituted the rate is the raw
\* counter.  (A divisor <<ms, 1000>> stands for ms / 1000 seconds.)
C32_DivisorIsGuarded ==
    RatesReturned =>
      /\ ret.elapsedTime[1] > 0
      /\ ret.elapsedTime[1] * 1000 >= ret.elapsedTime[2]
      /\ ret.since >= 1 => ret.elapsedTime = <<ret.since, 1000>>
      /\ Substituted =>
           /\ ret.elapsedTime[1] = ret.elapsedTime[2]
           /\ \A p \in DOMAIN ret.result :
                IF ret.op = "GetIOPS"
                THEN /\ ret.result[p].read_iops = ret.stats[p].ReadOps
                     /\ ret.result[p].write_iops = ret.stats[p].WriteOps
                ELSE /\ ret.result[p].read_throughput_bps =
                          ret.stats[p].ReadBytes
                     /\ ret.result[p].write_throughput_bps =
                          ret.stats[p].WriteBytes

\* a rate computed with the substituted divisor from non-zero counters
C32_Witness ==
    /\ Substituted
    /\ ret.op = "GetIOPS"
    /\ \E p \in DOMAIN ret.result :
         /\ ret.stats[p].ReadOps > 0
         /\ ret.result[p].read_iops = ret.stats[p].ReadOps

----------------------------------------------------------------------------
(* The duration a matched completion records                               *)

MatchedCompletion == ret.op \in CompletionOps /\ ret.pending

\* the nanoseconds and the operations counted for a process
TotalNs(latency, pid) ==
    IF pid \in DOMAIN latency
    THEN latency[pid].total_read_ns + latency[pid].total_write_ns
    ELSE 0

CountOf(latency, pid) ==
    IF pid \in DOMAIN latency
    THEN latency[pid].count_read + latency[pid].count_write
    ELSE 0

\* what the last handler added to the counters of a process
AddedNs(pid) == TotalNs(latency_by_pid, pid) - TotalNs(ret.before[2], pid)
AddedCount(pid) == CountOf(latency_by_pid, pid) - CountOf(ret.before[2], pid)

\* C33: a completion that matches a pending start records the completion
\* time minus the time of the latest start signal of its key, in the
\* counters of the process that raised that start signal and of no other,
\* and never a negative duration.
C33_DurationSinceLatestStart ==
    MatchedCompletion =>
      /\ ret.start # <<>>
      /\ \A pid \in DOMAIN latency_by_pid \cup DOMAIN ret.before[2] :
           IF pid = ret.start[1].pid
           THEN /\ AddedCount(pid) \in {0, 1}
                /\ pid \in DOMAIN ret.before[2] => AddedCount(pid) = 1
                /\ AddedNs(pid) =
                     IF AddedCount(pid) = 1 THEN ret.now - ret.start[1].time
                     ELSE 0
                /\ AddedNs(pid) >= 0
           ELSE AddedCount(pid) = 0 /\ AddedNs(pid) = 0
      /\ (ret.op = "trace_block_rq_complete"
            /\ Len(events) > Len(ret.before[3])) =>
           LET sent == events[Len(events)]
           IN /\ sent.io_start = ret.start[1].time
              /\ sent.io_end = ret.now
              /\ sent.pid = ret.start[1].pid

\* a key was started twice, the second time later than the first, and its
\* completion recorded the time since the second start
C33_Witness ==
    /\ MatchedCompletion
    /\ started[ret.key] = 2
    /\ completed[ret.key] = 1
    /\ ret.start[1].time = 1
    /\ ret.now = 2
    /\ AddedCount(ret.start[1].pid) = 1
    /\ AddedNs(ret.start[1].pid) = 1

----------------------------------------------------------------------------
(* The operation kind of a VFS sample                                      *)

\* the read and the write counters of every process, as a pair of maps
ReadCounters(latency) ==
    [pid \in DOMAIN latency |->
       <<latency[pid].total_read_ns, latency[pid].count_read>>]

WriteCounters(latency) ==
    [pid \in DOMAIN latency |->
       <<latency[pid].total_write_ns, latency[pid].count_write>>]

\* the counters of processes that had no entry before are zero
ZeroFilled(latency) ==
    [pid \in DOMAIN latency_by_pid |->
       IF pid \in DOMAIN latency THEN latency[pid] ELSE ZeroLatency]

\* C37 (as claimed): a vfs_write exit never adds to the read counters and
\* a vfs_read exit never adds to the write counters, whatever entry and
\* exit firings came before on the task.
C37_ExitCountsUnderOwnKind ==
    /\ ret.op = "trace_vfs_write_exit" =>
         ReadCounters(latency_by_pid) = ReadCounters(ZeroFilled(ret.before[2]))
    /\ ret.op = "trace_vfs_read_exit" =>
         WriteCounters(latency_by_pid) =
           WriteCounters(ZeroFilled(ret.before[2]))

----------------------------------------------------------------------------
(* A failed collection cycle                                               *)

\* C34: when an upstream call of collectMetrics fails, collectMetrics
\* returns an error and the monitor's metrics map is exactly what it was
\* before the call.
C34_FailedCycleKeepsMetrics ==
    (collected.op = "collectMetrics" /\ collected.failed) =>
      /\ collected.err # "nil"
      /\ metrics = collected.before

\* a cycle failed in one of the rate calls at a later time than the cycle
\* that filled the map, with a listing and data that would have changed it
C34_Witness ==
    /\ collected.op = "collectMetrics"
    /\ collected.failed
    /\ collected.err = "failed to get throughput data"
    /\ \E p \in collected.pods :
         /\ p \in DOMAIN metrics
         /\ p \in DOMAIN collected.data.ioStats
         /\ metrics[p].Timestamp < collected.now
         /\ metrics[p].ReadLatency # collected.data.ioStats[p].ReadLatencyNs

----------------------------------------------------------------------------
(* What the operations of the analyzer leave alone                         *)

\* what the analyzer holds about one entity: its history, its bottleneck
\* and its anomaly flag, each <<>> when the map has no such key
EntityState(p) ==
    <<IF p \in DOMAIN metricsHistory THEN <<metricsHistory[p]>> ELSE <<>>,
      IF p \in DOMAIN podBottlenecks THEN <<podBottlenecks[p]>> ELSE <<>>,
      IF p \in DOMAIN anomalyDetected THEN <<anomalyDetected[p]>> ELSE <<>>>>

AnalyzerState ==
    <<metricsHistory, podBottlenecks, anomalyDetected, maxHistoryPerPod,
      anomalyThreshold>>

AnalyzerQueries ==
    {"GetTopNSlowPods", "GetBottleneckType", "HasAnomalyDetected",
     "GetLatencyTrend"}

\* the step is the return of a query of the analyzer
QueryReturns == ret = NoReturn /\ ret'.op \in AnalyzerQueries

\* the step belongs to a call of AddMetrics: it takes the lock for the new
\* argument, or runs while the lock is held
InAddMetrics == mu' = "write" \/ mu = "write"

\* C36: a call of AddMetrics changes nothing about an entity that its
\* argument does not name, so nothing at all when the argument is empty;
\* the cap and the threshold stay; and a query of the analyzer changes no
\* state of the analyzer.  (While the lock is held addInput is the part of
\* the argument the loop has not visited yet.)
C36_OperationsKeepTheirFrame ==
    [][/\ InAddMetrics =>
            /\ \A p \in Pods :
                 p \notin DOMAIN addInput => EntityState(p)' = EntityState(p)
            /\ mu = "free" => AnalyzerState' = AnalyzerState
            /\ UNCHANGED <<maxHistoryPerPod, anomalyThreshold>>
       /\ QueryReturns => UNCHANGED <<AnalyzerState, mu, addInput>>]_vars

\* a call that names one pod has finished its loop while the analyzer
\* holds two snapshots of the other pod
C36_Witness ==
    /\ workload = "frame"
    /\ mu = "write"
    /\ DOMAIN addInput = {}
    /\ \E p, q \in Pods :
         /\ p # q
         /\ Len(supplied[p]) = 1
         /\ Len(supplied[q]) = 2
         /\ EntityState(q)[1] = <<supplied[q]>>
         /\ EntityState(p)[1] = <<supplied[p]>>

----------------------------------------------------------------------------
(* The entities the monitor and the analyzer know                          *)

\* the last collection cycle succeeded without listing p, which the
\* monitor knew before it
Unlisted(p) ==
    /\ collected.op = "collectMetrics"
    /\ ~collected.failed
    /\ p \in DOMAIN collected.before
    /\ p \notin collected.pods

\* C38: the entities of the monitor and of the analyzer only grow: a pod
\* with a snapshot is found by GetPodMetrics ever after, a pod is never
\* removed from the history, bottleneck or anomaly map, and a pod that a
\* later listing leaves out keeps its last values and timestamp.
C38_EntitiesOnlyGrow ==
    [][/\ DOMAIN metrics \subseteq DOMAIN metrics'
       /\ \A p \in Pods :
            GetPodMetrics(p).err = "nil" => GetPodMetrics(p)'.err = "nil"
       /\ DOMAIN metricsHistory \subseteq DOMAIN metricsHistory'
       /\ DOMAIN podBottlenecks \subseteq DOMAIN podBottlenecks'
       /\ DOMAIN anomalyDetected \subseteq DOMAIN anomalyDetected'
       /\ \A p \in Pods :
            Unlisted(p)' => /\ p \in DOMAIN metrics'
                            /\ metrics'[p] = collected'.before[p]]_vars

\* a pod that the analyzer has a history of is left out of a listing at a
\* later time and is still known to the monitor, with its old timestamp,
\* and to the three maps of the analyzer
C38_Witness ==
    \E p \in Pods :
      /\ Unlisted(p)
      /\ metrics[p].Timestamp < collected.now
      /\ GetPodMetrics(p).err = "nil"
      /\ p \in DOMAIN metricsHistory
      /\ p \in DOMAIN podBottlenecks
      /\ p \in DOMAIN anomalyDetected

----------------------------------------------------------------------------
(* The baseline of the trend and the latest snapshot                       *)

\* an earlier snapshot of the queried pod differs from the latest in its
\* combined latency
EarlierDiffers ==
    LET history == metricsHistory[ret.podName]
    IN \E i \in 1..(Len(history) - 1) :
         history[i].ReadLatency + history[i].WriteLatency # NewCombined

\* C39 (as claimed): when an earlier snapshot differs from the latest in its
\* combined latency, the baseline the query compares against is never the
\* latest snapshot itself, whatever the window and the time of the query.
C39_BaselineIsNotTheLatest ==
    (TrendReturned /\ EarlierDiffers) =>
      ret.baseline # Len(metricsHistory[ret.podName])

====
